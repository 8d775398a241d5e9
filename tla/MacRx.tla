-------------------------------- MODULE MacRx --------------------------------
(***************************************************************************)
(* The receive path of the Ethernet driver: low_level_init() of the lwIP   *)
(* port, which stocks the ring, MSS_MAC_receive_pkt(), the receive part of *)
(* generic_mac_irq_handler(), rxpkt_handler() with the callback chain      *)
(* mac_rx_callback() - ethernetif_input() - low_level_input(), and the GEM *)
(* receive DMA that works on the same descriptors while the handler runs.  *)
(*                                                                         *)
(* A frame is known by the buffer it was received into.                    *)
(***************************************************************************)
EXTENDS Naturals, Sequences, FiniteSets

CONSTANTS
  RING,           \* MSS_MAC_RX_RING_SIZE, also RX_BUFFER_COUNT
  OverflowLimit,  \* overruns in a row after which reception is restarted
  RxErrors,       \* errors the receiver meets: "OVERRUN", "RESP"
  MaxBacklog      \* frames that may wait in the ring; RING means any traffic

ASSUME RingAssumption     == RING \in Nat \ {0}
ASSUME LimitAssumption    == OverflowLimit \in Nat
ASSUME RxErrorsAssumption == RxErrors \subseteq {"OVERRUN", "RESP"}
ASSUME BacklogAssumption  == MaxBacklog \in 1 .. RING

Index    == 0 .. RING - 1
Buffers  == 0 .. RING - 1     \* g_mac_rx_buffer[]
NoBuffer == RING              \* address 0, as rx_desc_ring_init() leaves it

\* The receive interrupts, in the order generic_mac_irq_handler() looks at them.
Causes  == <<"COMPLETE", "OVERRUN", "USED", "RESP">>
RxBits  == {"COMPLETE", "OVERRUN", "USED", "RESP"}

VARIABLES
  count,      \* buffers low_level_init() has posted
  buf,        \* addr_low of each descriptor, without its flag bits
  used,       \* GEM_RX_DMA_USED of each descriptor
  nb,         \* nb_available_rx_desc
  nextFree,   \* next_free_rx_desc_index
  first,      \* first_rx_desc_index
  overflow,   \* overflow_counter
  plic,       \* the PLIC enable bit of the MAC interrupt
  isr,        \* where generic_mac_irq_handler() is; "off" when not running
  cause,      \* the interrupt bit it is at, an index of Causes
  pending,    \* int_pending
  pkt,        \* p_rx_packet, the buffer rxpkt_handler() is handing up
  intStatus,  \* INT_STATUS
  rxen,       \* GEM_ENABLE_RECEIVE
  hw,         \* the descriptor the GEM will use next
  filling,    \* TRUE while it writes a frame into that descriptor's buffer
  arrived     \* history: buffers with a frame the callback has not been given

inits  == <<count>>
ring   == <<buf, used>>
sw     == <<nb, nextFree, first>>
isrs   == <<isr, cause, pending, pkt>>
hwVars == <<rxen, hw, filling>>
vars   == <<inits, ring, sw, overflow, plic, isrs, intStatus, hwVars, arrived>>

IsrLabels == {"off", "ack", "scan", "copy", "repost", "clear", "tally", "restart"}

\* The driver's and the GEM's own state, without the history arrived, a
\* sequence of Buffers.
DriverTypeOK ==
  /\ count \in 0 .. RING
  /\ buf \in [Index -> Buffers \cup {NoBuffer}]
  /\ used \in [Index -> BOOLEAN]
  /\ nb \in 0 .. RING
  /\ nextFree \in Index
  /\ first \in Index
  /\ overflow \in 0 .. OverflowLimit + 2
  /\ plic \in BOOLEAN
  /\ isr \in IsrLabels
  /\ cause \in 1 .. Len(Causes)
  /\ pending \subseteq RxBits
  /\ pkt \in Buffers \cup {NoBuffer}
  /\ intStatus \subseteq RxBits
  /\ rxen \in BOOLEAN
  /\ hw \in Index
  /\ filling \in BOOLEAN

\* MSS_MAC_init() has run: no descriptor has a buffer and none is marked used.
Init ==
  /\ count = 0
  /\ buf = [i \in Index |-> NoBuffer]
  /\ used = [i \in Index |-> FALSE]
  /\ nb = RING /\ nextFree = 0 /\ first = 0
  /\ overflow = 0
  /\ plic = FALSE
  /\ isr = "off" /\ cause = 1 /\ pending = {} /\ pkt = NoBuffer
  /\ intStatus = {}
  /\ rxen = FALSE /\ hw = 0 /\ filling = FALSE
  /\ arrived = <<>>

Next1(i) == (i + 1) % RING

(***************************************************************************)
(* MSS_MAC_receive_pkt(b, enable), less its PLIC calls.  The test of the   *)
(* receive enable bit reads NETWORK_CONFIG, where that bit is never set,   *)
(* so "ENABLE" always turns reception on.                                  *)
(***************************************************************************)
ReceivePkt(b, enable) ==
  IF nb = 0 THEN UNCHANGED <<ring, nb, nextFree, hwVars>>
  ELSE /\ nb' = nb - 1
       /\ buf' = [buf EXCEPT ![nextFree] = b]
       /\ used' = [used EXCEPT ![nextFree] = FALSE]
       /\ nextFree' = Next1(nextFree)
       /\ rxen' = (enable # "DISABLE")
       /\ hw' = IF enable = "ARM" THEN 0 ELSE hw
       /\ filling' = (enable = "ENABLE" /\ filling)

\* MUTANT: every buffer is posted with MSS_MAC_INT_ENABLE until the last.
PrimeEnabled ==
  /\ count < RING
  /\ count' = count + 1
  /\ ReceivePkt(count, IF count' = RING THEN "ARM" ELSE "ENABLE")
  /\ plic' = (count' = RING)
  /\ UNCHANGED <<first, overflow, isrs, intStatus, arrived>>

\* One turn of the loop of low_level_init() that posts the receive buffers.
\* The interrupt is off during each call and comes on after the last.
Prime ==
  /\ count < RING
  /\ count' = count + 1
  /\ ReceivePkt(count, IF count' = RING THEN "ARM" ELSE "DISABLE")
  /\ plic' = (count' = RING)
  /\ UNCHANGED <<first, overflow, isrs, intStatus, arrived>>

-----------------------------------------------------------------------------
(* The GEM receiver.                                                       *)

swVars == <<inits, sw, overflow, plic, isrs>>
Raise(bit) == intStatus' = intStatus \cup {bit}

\* History, of no code: the frames that wait, less the one in buffer b, of which
\* there is one at most.
Without(b) ==
  IF \A i \in DOMAIN arrived : arrived[i] # b THEN arrived
  ELSE LET i == CHOOSE j \in DOMAIN arrived : arrived[j] = b
       IN  SubSeq(arrived, 1, i - 1) \o SubSeq(arrived, i + 1, Len(arrived))

\* A frame is coming in and the descriptor it is to go to is read.
HwFetch ==
  /\ rxen /\ ~filling
  /\ Cardinality({i \in Index : used[i]}) < MaxBacklog
  /\ ~used[hw]
  /\ filling' = TRUE
  /\ UNCHANGED <<swVars, ring, intStatus, rxen, hw, arrived>>

\* ... but it is still marked used: the frame is dropped.
HwNoBuffer ==
  /\ rxen /\ ~filling
  /\ used[hw]
  /\ Raise("USED")
  /\ UNCHANGED <<swVars, ring, hwVars, arrived>>

\* The frame is in the buffer: mark the descriptor and step to the next.  A
\* frame that lay in the same buffer unread is gone.
HwStore ==
  /\ filling
  /\ used' = [used EXCEPT ![hw] = TRUE]
  /\ arrived' = Append(Without(buf[hw]), buf[hw])
  /\ filling' = FALSE
  /\ hw' = Next1(hw)
  /\ Raise("COMPLETE")
  /\ UNCHANGED <<swVars, buf, rxen>>

\* The receive FIFO overruns and the frame in it is lost.
HwOverrun ==
  /\ "OVERRUN" \in RxErrors
  /\ rxen
  /\ filling' = FALSE
  /\ Raise("OVERRUN")
  /\ UNCHANGED <<swVars, ring, rxen, hw, arrived>>

\* A bus error stops the receiver.
HwRespNotOk ==
  /\ "RESP" \in RxErrors
  /\ rxen
  /\ rxen' = FALSE /\ filling' = FALSE
  /\ Raise("RESP")
  /\ UNCHANGED <<swVars, ring, hw, arrived>>

-----------------------------------------------------------------------------
(* generic_mac_irq_handler()                                               *)

IsrEnter ==
  /\ isr = "off" /\ plic
  /\ intStatus # {}
  /\ isr' = "ack" /\ cause' = 1
  /\ pending' = intStatus
  /\ UNCHANGED <<inits, sw, overflow, plic, pkt, ring, intStatus, hwVars, arrived>>

NextCause == IF cause = Len(Causes)
             THEN isr' = "restart" /\ UNCHANGED cause
             ELSE isr' = "ack" /\ cause' = cause + 1

\* MUTANT: the interrupt bit is cleared when the condition has been handled.
IsrAckLate ==
  /\ isr = "ack"
  /\ \/ /\ Causes[cause] \in pending
        /\ isr' = "scan"
        /\ UNCHANGED <<cause, intStatus>>
     \/ /\ Causes[cause] \notin pending
        /\ NextCause
        /\ intStatus' = IF cause = Len(Causes) THEN intStatus \ pending ELSE intStatus
  /\ UNCHANGED <<inits, sw, overflow, plic, pending, pkt, ring, hwVars, arrived>>

\* The bit is cleared first and then the condition handled.
IsrAck ==
  /\ isr = "ack"
  /\ \/ /\ Causes[cause] \in pending
        /\ intStatus' = intStatus \ {Causes[cause]}
        /\ isr' = "scan"
        /\ UNCHANGED cause
     \/ /\ Causes[cause] \notin pending
        /\ NextCause
        /\ UNCHANGED intStatus
  /\ UNCHANGED <<inits, sw, overflow, plic, pending, pkt, ring, hwVars, arrived>>

\* MUTANT: the descriptor is marked unused before the frame has been copied.
RxScanRelease ==
  /\ isr = "scan"
  /\ \/ /\ used[first]
        /\ nb' = nb + 1
        /\ pkt' = buf[first]
        /\ used' = [used EXCEPT ![first] = FALSE]
        /\ isr' = "copy"
     \/ /\ ~used[first]
        /\ isr' = "tally"
        /\ UNCHANGED <<nb, pkt, used>>
  /\ UNCHANGED <<inits, nextFree, first, overflow, plic, cause, pending, buf,
                 intStatus, hwVars, arrived>>

\* The loop test of rxpkt_handler() and the head of its body.
RxScan ==
  /\ isr = "scan"
  /\ \/ /\ used[first]
        /\ nb' = nb + 1
        /\ pkt' = buf[first]
        /\ isr' = "copy"
     \/ /\ ~used[first]
        /\ isr' = "tally"
        /\ UNCHANGED <<nb, pkt>>
  /\ UNCHANGED <<inits, nextFree, first, overflow, plic, cause, pending, ring,
                 intStatus, hwVars, arrived>>

\* MUTANT: when pbuf_alloc() fails the buffer is not posted again.
RxCopyOrLeak ==
  /\ isr = "copy"
  /\ arrived' = Without(pkt)
  /\ isr' \in {"repost", "clear"}
  /\ UNCHANGED <<inits, sw, overflow, plic, cause, pending, pkt, ring, intStatus, hwVars>>

\* low_level_input() copies the frame into pbufs, or drops it when there are
\* none; either way it goes on to post the buffer again.
RxCopy ==
  /\ isr = "copy"
  /\ arrived' = Without(pkt)
  /\ isr' = "repost"
  /\ UNCHANGED <<inits, sw, overflow, plic, cause, pending, pkt, ring, intStatus, hwVars>>

\* in_isr is set, so the PLIC is left alone.
RxRepost ==
  /\ isr = "repost"
  /\ isr' = "clear"
  /\ ReceivePkt(pkt, "ENABLE")
  /\ UNCHANGED <<inits, first, overflow, plic, cause, pending, pkt, intStatus, arrived>>

\* MUTANT: the index runs past the end of the ring and starts again at 1.
RxClearSkips ==
  /\ isr = "clear"
  /\ isr' = "scan"
  /\ used' = [used EXCEPT ![first] = FALSE]
  /\ first' = IF Next1(first) = 0 THEN Next1(0) ELSE Next1(first)
  /\ UNCHANGED <<inits, nb, nextFree, overflow, plic, cause, pending, pkt, buf,
                 intStatus, hwVars, arrived>>

\* "Mark buffer as unused again", and on to the next descriptor.
RxClear ==
  /\ isr = "clear"
  /\ isr' = "scan"
  /\ used' = [used EXCEPT ![first] = FALSE]
  /\ first' = Next1(first)
  /\ UNCHANGED <<inits, nb, nextFree, overflow, plic, cause, pending, pkt, buf,
                 intStatus, hwVars, arrived>>

\* MUTANT: reception is not enabled again after a bus error.
IsrTallyStaysOff ==
  /\ isr = "tally"
  /\ NextCause
  /\ overflow' = CASE Causes[cause] = "COMPLETE" -> 0
                   [] Causes[cause] = "RESP" -> overflow
                   [] OTHER -> overflow + 1
  /\ UNCHANGED <<inits, sw, plic, pending, pkt, ring, intStatus, hwVars, arrived>>

\* What follows rxpkt_handler() for each cause.
IsrTally ==
  /\ isr = "tally"
  /\ NextCause
  /\ overflow' = CASE Causes[cause] = "COMPLETE" -> 0
                   [] Causes[cause] = "RESP" -> overflow
                   [] OTHER -> overflow + 1
  /\ rxen' = (rxen \/ Causes[cause] = "RESP")
  /\ UNCHANGED <<inits, sw, plic, pending, pkt, ring, intStatus, hw, filling, arrived>>

\* The restart: only the GEM goes back to the base of the ring, the three
\* statements that name the driver's own indices assign nothing.
IsrRestart ==
  /\ isr = "restart"
  /\ isr' = "off"
  /\ IF overflow > OverflowLimit
     THEN overflow' = 0 /\ rxen' = TRUE /\ filling' = FALSE /\ hw' = 0
     ELSE UNCHANGED <<overflow, hwVars>>
  /\ UNCHANGED <<inits, sw, plic, cause, pending, pkt, ring, intStatus, arrived>>

-----------------------------------------------------------------------------
IsrStep == \/ IsrEnter \/ IsrAck
           \/ RxScan \/ RxCopy \/ RxRepost \/ RxClear
           \/ IsrTally \/ IsrRestart

HwStep == HwFetch \/ HwNoBuffer \/ HwStore \/ HwOverrun \/ HwRespNotOk

Next == Prime \/ IsrStep \/ HwStep

Spec == Init /\ [][Next]_vars

(***************************************************************************)
(* The initialisation task finishes its loop and the hart takes an enabled *)
(* interrupt and runs its handler.  No frame is obliged to come.           *)
(***************************************************************************)
FairSpec == Spec /\ WF_vars(Prime) /\ WF_vars(IsrStep)
=============================================================================
