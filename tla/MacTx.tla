-------------------------------- MODULE MacTx --------------------------------
(***************************************************************************)
(* The transmit path of the Ethernet port: low_level_output() of the lwIP  *)
(* port (netif/m2sxxx_ethernetif.c), MSS_MAC_send_pkt(), the transmit part *)
(* of generic_mac_irq_handler() and txpkt_handler() of the MAC driver      *)
(* (mss_ethernet_mac.c), and the GEM transmit DMA they share memory with.  *)
(*                                                                         *)
(* One hart runs everything: tasks interleave at any point (the kernel is  *)
(* preemptive), the interrupt handler runs to its end before any task      *)
(* moves, and the DMA engine runs beside both.                             *)
(***************************************************************************)
EXTENDS Naturals

CONSTANTS
  Senders,    \* tasks that call low_level_output()
  NoTask,     \* fills the transmit buffer before any sender has
  TX_RING,    \* MSS_MAC_TX_RING_SIZE
  MaxPbufs,   \* longest pbuf chain of a packet
  Faults      \* interrupt bits with which the GEM may end a transmission

ASSUME SendersAssumption == NoTask \notin Senders
ASSUME RingAssumption    == TX_RING \in Nat \ {0}
ASSUME PbufsAssumption   == MaxPbufs \in Nat \ {0}
ASSUME FaultsAssumption  == Faults \subseteq {"AMBA", "FATAL"}

VARIABLES
  pc,         \* where each sender is in low_level_output()
  chain,      \* number of pbufs of the packet each sender holds
  copied,     \* pckt_length: how many of them it has copied
  tx_status,  \* TRUE for MSS_MAC_SUCCESS, per sender
  sem,        \* count of xSemaphore, the semaphore of the transmit buffer
  txbuf,      \* g_mac_tx_buffer[0]: the sender whose data is in each part
  nbAvail,    \* nb_available_tx_desc
  desc,       \* tx_desc_tab[0]: who posted it and the length posted
  plic,       \* TRUE when the PLIC enable bit of the MAC interrupt is set
  dma,        \* the GEM transmitter: "halted", "busy" or "failed"
  intStatus,  \* bits set in INT_STATUS
  txStatus,   \* the TRANSMIT_COMPLETE bit of TRANSMIT_STATUS
  isr,        \* where generic_mac_irq_handler() is; "off" when not running
  pending     \* int_pending, its working copy of the interrupt bits

vars == <<pc, chain, copied, tx_status, sem, txbuf, nbAvail, desc, plic, dma,
          intStatus, txStatus, isr, pending>>

hwVars  == <<dma, intStatus, txStatus>>
isrVars == <<isr, pending>>

Parts     == 1 .. MaxPbufs
Labels    == {"idle", "take", "copy", "mask", "post", "unmask"}
IsrLabels == {"off", "tx", "give", "release", "other", "stuck"}
IntBits   == {"TX", "AMBA", "FATAL"}

TypeOK ==
  /\ pc \in [Senders -> Labels]
  /\ chain \in [Senders -> Parts]
  /\ copied \in [Senders -> 0 .. MaxPbufs]
  /\ tx_status \in [Senders -> BOOLEAN]
  /\ sem \in {0, 1}
  /\ txbuf \in [Parts -> Senders \cup {NoTask}]
  /\ nbAvail \in {0, TX_RING}
  /\ desc \in [by : Senders \cup {NoTask}, len : 0 .. MaxPbufs]
  /\ plic \in BOOLEAN
  /\ dma \in {"halted", "busy", "failed"}
  /\ intStatus \subseteq IntBits
  /\ txStatus \in BOOLEAN
  /\ isr \in IsrLabels
  /\ pending \subseteq IntBits

(***************************************************************************)
(* The state low_level_init() leaves: the semaphore is created available,  *)
(* MSS_MAC_init() has freed every descriptor, the interrupt is armed.      *)
(***************************************************************************)
Init ==
  /\ pc = [t \in Senders |-> "idle"]
  /\ chain = [t \in Senders |-> 1]
  /\ copied = [t \in Senders |-> 0]
  /\ tx_status = [t \in Senders |-> FALSE]
  /\ sem = 1
  /\ txbuf = [i \in Parts |-> NoTask]
  /\ nbAvail = TX_RING
  /\ desc = [by |-> NoTask, len |-> 0]
  /\ plic = TRUE
  /\ dma = "halted"
  /\ intStatus = {}
  /\ txStatus = FALSE
  /\ isr = "off"
  /\ pending = {}

-----------------------------------------------------------------------------
(* Tasks.  A task moves only while the interrupt handler is not running,   *)
(* so send_pkt always reads in_isr = 0 here and takes both PLIC branches.  *)

Goto(t, from, to) == /\ isr = "off"
                     /\ pc[t] = from
                     /\ pc' = [pc EXCEPT ![t] = to]

\* netif->linkoutput(netif, p) with a packet p of n pbufs.
Output(t, n) ==
  /\ Goto(t, "idle", "take")
  /\ chain' = [chain EXCEPT ![t] = n]
  /\ copied' = [copied EXCEPT ![t] = 0]
  /\ UNCHANGED <<tx_status, sem, txbuf, nbAvail, desc, plic, hwVars, isrVars>>

\* MUTANT: the wait is given a timeout and its result is not tested.
TakeSemaphoreUntested(t) ==
  /\ Goto(t, "take", "copy")
  /\ sem' = 0
  /\ UNCHANGED <<chain, copied, tx_status, txbuf, nbAvail, desc, plic, hwVars, isrVars>>

\* xSemaphoreTake(xSemaphore, portMAX_DELAY) == pdTRUE
TakeSemaphore(t) ==
  /\ Goto(t, "take", "copy")
  /\ sem = 1
  /\ sem' = 0
  /\ UNCHANGED <<chain, copied, tx_status, txbuf, nbAvail, desc, plic, hwVars, isrVars>>

\* One memcpy of the loop that flattens the chain into the buffer.
CopyPbuf(t) ==
  LET next == copied[t] + 1
  IN  /\ Goto(t, "copy", IF next = chain[t] THEN "mask" ELSE "copy")
      /\ txbuf' = [txbuf EXCEPT ![next] = t]
      /\ copied' = [copied EXCEPT ![t] = next]
      /\ UNCHANGED <<chain, tx_status, sem, nbAvail, desc, plic, hwVars, isrVars>>

\* PLIC_DisableIRQ() at the head of MSS_MAC_send_pkt()
MaskIrq(t) ==
  /\ Goto(t, "mask", "post")
  /\ plic' = FALSE
  /\ tx_status' = [tx_status EXCEPT ![t] = FALSE]
  /\ UNCHANGED <<chain, copied, sem, txbuf, nbAvail, desc, hwVars, isrVars>>

\* Its body: descriptor 0 is written and the DMA started, or nothing is.
PostFrame(t) ==
  /\ Goto(t, "post", "unmask")
  /\ IF nbAvail = TX_RING
     THEN /\ nbAvail' = 0
          /\ desc' = [by |-> t, len |-> copied[t]]
          /\ dma' = "busy"
          /\ tx_status' = [tx_status EXCEPT ![t] = TRUE]
     ELSE UNCHANGED <<nbAvail, desc, dma, tx_status>>
  /\ UNCHANGED <<chain, copied, sem, txbuf, plic, intStatus, txStatus, isrVars>>

\* MUTANT: the interrupt is enabled again only on the failure path.
UnmaskIrqIfPosted(t) ==
  /\ Goto(t, "unmask", IF tx_status[t] THEN "idle" ELSE "mask")
  /\ plic' = ~tx_status[t]
  /\ UNCHANGED <<chain, copied, tx_status, sem, txbuf, nbAvail, desc, hwVars, isrVars>>

\* MUTANT: the sender gives the semaphore back as soon as the frame is posted.
UnmaskIrqAndGive(t) ==
  /\ Goto(t, "unmask", IF tx_status[t] THEN "idle" ELSE "mask")
  /\ plic' = TRUE
  /\ sem' = IF tx_status[t] THEN 1 ELSE sem
  /\ UNCHANGED <<chain, copied, tx_status, txbuf, nbAvail, desc, hwVars, isrVars>>

\* PLIC_EnableIRQ(), then low_level_output() leaves or, after vTaskDelay(1),
\* which is any wait, tries MSS_MAC_send_pkt() again.
UnmaskIrq(t) ==
  /\ Goto(t, "unmask", IF tx_status[t] THEN "idle" ELSE "mask")
  /\ plic' = TRUE
  /\ UNCHANGED <<chain, copied, tx_status, sem, txbuf, nbAvail, desc, hwVars, isrVars>>

-----------------------------------------------------------------------------
(* The GEM transmitter: it sends descriptor 0 and stops at descriptor 1,   *)
(* which is always marked used.                                            *)

taskVars == <<pc, chain, copied, tx_status, sem, txbuf, nbAvail, desc, plic>>

HwComplete ==
  /\ dma = "busy"
  /\ dma' = "halted"
  /\ txStatus' = TRUE
  /\ intStatus' = intStatus \cup {"TX"}
  /\ UNCHANGED <<taskVars, isrVars>>

\* AMBA bus error, or one of the errors the handler has no answer to.
HwFault(bit) ==
  /\ dma = "busy"
  /\ dma' = "failed"
  /\ intStatus' = intStatus \cup {bit}
  /\ UNCHANGED <<taskVars, txStatus, isrVars>>

-----------------------------------------------------------------------------
(* generic_mac_irq_handler()                                               *)

\* The trap: in_isr = 1 and the working copy of the interrupt bits.
IsrEnter ==
  /\ isr = "off"
  /\ plic
  /\ intStatus # {}
  /\ isr' = "tx"
  /\ pending' = intStatus
  /\ UNCHANGED <<taskVars, hwVars>>

IsrTx ==
  /\ isr = "tx"
  /\ \/ /\ "TX" \in pending /\ txStatus
        /\ txStatus' = FALSE
        /\ intStatus' = intStatus \ {"TX"}
        /\ isr' = "give"
     \/ /\ ~("TX" \in pending /\ txStatus)
        /\ isr' = "other"
        /\ UNCHANGED <<txStatus, intStatus>>
  /\ UNCHANGED <<taskVars, dma, pending>>

\* MUTANT: no completion callback is registered (MSS_MAC_set_tx_callback lost).
IsrGiveNoCallback ==
  /\ isr = "give"
  /\ isr' = "release"
  /\ UNCHANGED <<taskVars, hwVars, pending>>

\* txpkt_handler() calls packet_tx_complete_handler(): xSemaphoreGiveFromISR()
IsrGive ==
  /\ isr = "give"
  /\ isr' = "release"
  /\ sem' = 1
  /\ UNCHANGED <<pc, chain, copied, tx_status, txbuf, nbAvail, desc, plic, hwVars, pending>>

\* MUTANT: the descriptors are not released.
IsrReleaseNothing ==
  /\ isr = "release"
  /\ isr' = "other"
  /\ UNCHANGED <<taskVars, hwVars, pending>>

\* ... and only then releases the transmit descriptors.
IsrRelease ==
  /\ isr = "release"
  /\ isr' = "other"
  /\ nbAvail' = TX_RING
  /\ UNCHANGED <<pc, chain, copied, tx_status, sem, txbuf, desc, plic, hwVars, pending>>

\* The tail of the handler: AMBA is acknowledged, anything else hangs it.
IsrOther ==
  /\ isr = "other"
  /\ \/ /\ pending \subseteq {"TX"}
        /\ isr' = "off"
        /\ UNCHANGED intStatus
     \/ /\ "AMBA" \in pending
        /\ isr' = "off"
        /\ intStatus' = intStatus \ {"AMBA"}
     \/ /\ "AMBA" \notin pending /\ "FATAL" \in pending
        /\ isr' = "stuck"
        /\ UNCHANGED intStatus
  /\ UNCHANGED <<taskVars, dma, txStatus, pending>>

-----------------------------------------------------------------------------
TaskStep(t) == \/ TakeSemaphore(t) \/ CopyPbuf(t)
               \/ MaskIrq(t) \/ PostFrame(t) \/ UnmaskIrq(t)

IsrStep == IsrEnter \/ IsrTx \/ IsrGive \/ IsrRelease \/ IsrOther

Next == \/ \E t \in Senders : TaskStep(t) \/ \E n \in Parts : Output(t, n)
        \/ HwComplete
        \/ \E bit \in Faults : HwFault(bit)
        \/ IsrStep

Spec == Init /\ [][Next]_vars

(***************************************************************************)
(* The hart takes an enabled interrupt and finishes its handler, the DMA   *)
(* finishes a transmission, and a ready task gets to run: tcpip_thread is  *)
(* the highest-priority task that sends.  Nobody is obliged to send.       *)
(***************************************************************************)
Fairness == /\ WF_vars(HwComplete)
            /\ WF_vars(IsrStep)
            /\ \A t \in Senders : WF_vars(TaskStep(t))

FairSpec == Spec /\ Fairness
=============================================================================
