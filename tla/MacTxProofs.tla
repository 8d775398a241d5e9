----------------------------- MODULE MacTxProofs -----------------------------
(***************************************************************************)
(* Safety of the transmit path, for any set of senders, any ring size, any *)
(* packet length and any subset of the transmit faults.                    *)
(***************************************************************************)
EXTENDS MacTxProps, TLAPS

(***************************************************************************)
(* The inductive invariant.  OneToken says where the right to the buffer   *)
(* is; the other parts tie that place to the bits each step looks at.      *)
(***************************************************************************)

\* Completion shows in both GEM registers at once, and nothing is
\* outstanding from an earlier frame while one is on the wire.
HwInv ==
  /\ txStatus <=> "TX" \in intStatus
  /\ dma # "halted" => "TX" \notin intStatus /\ isr \notin {"give", "release"}
  /\ isr = "give" => "TX" \notin intStatus
  /\ isr = "release" => sem = 1

\* The ring is taken from the post to the release in the handler.
RingInv == nbAvail = TX_RING <=> ~InFlight /\ isr # "release"

\* The interrupt is masked exactly while some sender is between its two PLIC
\* calls, there is one such sender, and the handler cannot be running then.
Masking(t) == pc[t] \in {"post", "unmask"}

MaskInv ==
  /\ plic <=> \A t \in Senders : ~Masking(t)
  /\ \A t, u \in Senders : Masking(t) /\ Masking(u) => t = u
  /\ ~plic => isr = "off"
  /\ \A t \in Senders : pc[t] = "unmask" /\ tx_status[t] => InFlight

\* What the holder has copied so far is in the buffer.
BufInv ==
  \A t \in Senders :
    /\ pc[t] = "copy" => copied[t] < chain[t]
    /\ pc[t] = "take" => copied[t] = 0
    /\ Holding(t) => \A i \in 1 .. copied[t] : txbuf[i] = t

IInv == TypeOK /\ OneToken /\ HwInv /\ RingInv /\ MaskInv /\ BufInv /\ DmaReadsItsFrame

USE SendersAssumption, RingAssumption, PbufsAssumption, FaultsAssumption

LEMMA InitIInv == Init => IInv
<1> SUFFICES ASSUME Init PROVE IInv
  OBVIOUS
<1> USE DEF Init
<1>1. TypeOK
  <2> USE DEF Parts, Labels, IsrLabels, IntBits
  <2>1. pc \in [Senders -> Labels] /\ isr \in IsrLabels
    OBVIOUS
  <2>2. chain \in [Senders -> Parts] /\ copied \in [Senders -> 0 .. MaxPbufs]
    OBVIOUS
  <2>3. tx_status \in [Senders -> BOOLEAN] /\ plic \in BOOLEAN /\ txStatus \in BOOLEAN
    OBVIOUS
  <2>4. /\ txbuf \in [Parts -> Senders \cup {NoTask}]
        /\ desc \in [by : Senders \cup {NoTask}, len : 0 .. MaxPbufs]
    OBVIOUS
  <2>5. intStatus \subseteq IntBits /\ pending \subseteq IntBits
    OBVIOUS
  <2> QED
    BY <2>1, <2>2, <2>3, <2>4, <2>5 DEF TypeOK
<1>2. \A t \in Senders : ~Holding(t)
  BY DEF Holding
<1>3. ~InFlight
  BY DEF InFlight
<1>4. OneToken
  BY <1>2, <1>3 DEF OneToken
<1>5. HwInv /\ RingInv /\ DmaReadsItsFrame
  BY <1>3 DEF HwInv, RingInv, DmaReadsItsFrame
<1>6. MaskInv /\ BufInv
  BY <1>2 DEF MaskInv, Masking, BufInv
<1> QED
  BY <1>1, <1>4, <1>5, <1>6 DEF IInv

(***************************************************************************)
(* Type correctness needs the copy loop's bound, so it is part of the      *)
(* inductive invariant and each step preserves it on its own.              *)
(***************************************************************************)
LEMMA TypeStep == IInv /\ [Next]_vars => TypeOK'
<1> SUFFICES ASSUME IInv, [Next]_vars PROVE TypeOK'
  OBVIOUS
<1> USE DEF IInv, TypeOK, Parts, Labels, IsrLabels, IntBits, hwVars, isrVars, Goto
<1>1. ASSUME NEW t \in Senders, NEW n \in Parts, Output(t, n) PROVE TypeOK'
  BY <1>1 DEF Output
<1>2. ASSUME NEW t \in Senders, TakeSemaphore(t) PROVE TypeOK'
  BY <1>2 DEF TakeSemaphore
<1>3. ASSUME NEW t \in Senders, CopyPbuf(t) PROVE TypeOK'
  <2>1. copied[t] + 1 \in 1 .. MaxPbufs
    BY <1>3 DEF CopyPbuf, BufInv
  <2>2. pc' \in [Senders -> Labels] /\ copied' \in [Senders -> 0 .. MaxPbufs]
    BY <1>3, <2>1 DEF CopyPbuf
  <2>3. txbuf' \in [Parts -> Senders \cup {NoTask}]
    BY <1>3, <2>1 DEF CopyPbuf
  <2>4. UNCHANGED <<chain, tx_status, sem, nbAvail, desc, plic, dma, intStatus,
                    txStatus, isr, pending>>
    BY <1>3 DEF CopyPbuf
  <2>5. tx_status \in [Senders -> BOOLEAN] /\ plic \in BOOLEAN /\ txStatus \in BOOLEAN
    OBVIOUS
  <2>6. tx_status' = tx_status
    BY <1>3 DEF CopyPbuf
  <2>7. tx_status' \in [Senders -> BOOLEAN] /\ plic' \in BOOLEAN /\ txStatus' \in BOOLEAN
    BY <2>4, <2>5, <2>6, Zenon
  <2>8. /\ chain' \in [Senders -> Parts] /\ sem' \in {0, 1} /\ nbAvail' \in {0, TX_RING}
        /\ desc' \in [by : Senders \cup {NoTask}, len : 0 .. MaxPbufs]
        /\ dma' \in {"halted", "busy", "failed"} /\ intStatus' \subseteq IntBits
        /\ isr' \in IsrLabels /\ pending' \subseteq IntBits
    BY <2>4
  <2> QED
    BY <2>2, <2>3, <2>7, <2>8
<1>4. ASSUME NEW t \in Senders, MaskIrq(t) PROVE TypeOK'
  BY <1>4 DEF MaskIrq
<1>5. ASSUME NEW t \in Senders, PostFrame(t) PROVE TypeOK'
  <2> USE <1>5 DEF PostFrame
  <2>1. CASE nbAvail = TX_RING
    <3>1. desc' \in [by : Senders \cup {NoTask}, len : 0 .. MaxPbufs]
      BY <2>1
    <3>2. tx_status' \in [Senders -> BOOLEAN]
      BY <2>1
    <3> QED
      BY <2>1, <3>1, <3>2
  <2>2. CASE nbAvail # TX_RING
    BY <2>2
  <2> QED
    BY <2>1, <2>2
<1>6. ASSUME NEW t \in Senders, UnmaskIrq(t) PROVE TypeOK'
  BY <1>6 DEF UnmaskIrq
<1>7. CASE HwComplete
  BY <1>7 DEF HwComplete, taskVars
<1>8. ASSUME NEW bit \in Faults, HwFault(bit) PROVE TypeOK'
  BY <1>8 DEF HwFault, taskVars
<1>9. CASE IsrStep
  BY <1>9 DEF IsrStep, IsrEnter, IsrTx, IsrGive, IsrRelease, IsrOther, taskVars
<1>10. CASE UNCHANGED vars
  BY <1>10 DEF vars
<1> QED
  BY <1>1, <1>2, <1>3, <1>4, <1>5, <1>6, <1>7, <1>8, <1>9, <1>10 DEF Next, TaskStep

(***************************************************************************)
(* The invariant is preserved.  Each action has the same three parts: who  *)
(* holds the slot and what the ring and the GEM registers say of it, the   *)
(* interrupt mask, and the contents of the buffer.                         *)
(***************************************************************************)
LEMMA NextIInv == IInv /\ [Next]_vars => IInv'
<1> SUFFICES ASSUME IInv, [Next]_vars, TypeOK' PROVE IInv'
  BY TypeStep
<1> USE DEF IInv, TypeOK, Parts, hwVars, isrVars
<1> USE DEF OneToken, Holding, InFlight, HwInv, RingInv, MaskInv, Masking, BufInv, DmaReadsItsFrame
<1>1. ASSUME NEW t \in Senders, NEW n \in Parts, Output(t, n) PROVE IInv'
  <2> USE <1>1 DEF Output, Goto
  <2>1. OneToken' /\ HwInv' /\ RingInv'
    OBVIOUS
  <2>2. MaskInv'
    OBVIOUS
  <2>3. BufInv' /\ DmaReadsItsFrame'
    OBVIOUS
  <2> QED
    BY <2>1, <2>2, <2>3
<1>2. ASSUME NEW t \in Senders, TakeSemaphore(t) PROVE IInv'
  <2> USE <1>2 DEF TakeSemaphore, Goto
  <2>1. OneToken' /\ HwInv' /\ RingInv'
    OBVIOUS
  <2>2. MaskInv'
    OBVIOUS
  <2>3. BufInv' /\ DmaReadsItsFrame'
    OBVIOUS
  <2> QED
    BY <2>1, <2>2, <2>3
<1>3. ASSUME NEW t \in Senders, CopyPbuf(t) PROVE IInv'
  <2> USE <1>3 DEF CopyPbuf, Goto
  <2>1. OneToken' /\ HwInv' /\ RingInv'
    OBVIOUS
  <2>2. MaskInv'
    OBVIOUS
  <2>3. BufInv' /\ DmaReadsItsFrame'
    OBVIOUS
  <2> QED
    BY <2>1, <2>2, <2>3
<1>4. ASSUME NEW t \in Senders, MaskIrq(t) PROVE IInv'
  <2> USE <1>4 DEF MaskIrq, Goto
  <2>1. OneToken' /\ HwInv' /\ RingInv'
    OBVIOUS
  <2>2. MaskInv'
    OBVIOUS
  <2>3. BufInv' /\ DmaReadsItsFrame'
    OBVIOUS
  <2> QED
    BY <2>1, <2>2, <2>3
<1>5. ASSUME NEW t \in Senders, PostFrame(t) PROVE IInv'
  <2> USE <1>5 DEF PostFrame, Goto
  <2>1. OneToken' /\ HwInv' /\ RingInv'
    OBVIOUS
  <2>2. MaskInv'
    OBVIOUS
  <2>3. BufInv' /\ DmaReadsItsFrame'
    OBVIOUS
  <2> QED
    BY <2>1, <2>2, <2>3
<1>6. ASSUME NEW t \in Senders, UnmaskIrq(t) PROVE IInv'
  <2> USE <1>6 DEF UnmaskIrq, Goto
  <2>1. OneToken' /\ HwInv' /\ RingInv'
    OBVIOUS
  <2>2. MaskInv'
    OBVIOUS
  <2>3. BufInv' /\ DmaReadsItsFrame'
    OBVIOUS
  <2> QED
    BY <2>1, <2>2, <2>3
<1>7. CASE HwComplete
  <2> USE <1>7 DEF HwComplete, taskVars
  <2>1. OneToken' /\ HwInv' /\ RingInv'
    OBVIOUS
  <2>2. MaskInv'
    OBVIOUS
  <2>3. BufInv' /\ DmaReadsItsFrame'
    OBVIOUS
  <2> QED
    BY <2>1, <2>2, <2>3
<1>8. ASSUME NEW bit \in Faults, HwFault(bit) PROVE IInv'
  <2> USE <1>8 DEF HwFault, taskVars
  <2>1. OneToken' /\ HwInv' /\ RingInv'
    OBVIOUS
  <2>2. MaskInv'
    OBVIOUS
  <2>3. BufInv' /\ DmaReadsItsFrame'
    OBVIOUS
  <2> QED
    BY <2>1, <2>2, <2>3
<1>9. CASE IsrEnter
  <2> USE <1>9 DEF IsrEnter, taskVars
  <2>1. OneToken' /\ HwInv' /\ RingInv'
    OBVIOUS
  <2>2. MaskInv'
    OBVIOUS
  <2>3. BufInv' /\ DmaReadsItsFrame'
    OBVIOUS
  <2> QED
    BY <2>1, <2>2, <2>3
<1>10. CASE IsrTx
  <2> USE <1>10 DEF IsrTx, taskVars
  <2>1. OneToken' /\ HwInv' /\ RingInv'
    OBVIOUS
  <2>2. MaskInv'
    OBVIOUS
  <2>3. BufInv' /\ DmaReadsItsFrame'
    OBVIOUS
  <2> QED
    BY <2>1, <2>2, <2>3
<1>11. CASE IsrGive
  <2> USE <1>11 DEF IsrGive
  <2>1. OneToken' /\ HwInv' /\ RingInv'
    OBVIOUS
  <2>2. MaskInv'
    OBVIOUS
  <2>3. BufInv' /\ DmaReadsItsFrame'
    OBVIOUS
  <2> QED
    BY <2>1, <2>2, <2>3
<1>12. CASE IsrRelease
  <2> USE <1>12 DEF IsrRelease
  <2>1. OneToken' /\ HwInv' /\ RingInv'
    OBVIOUS
  <2>2. MaskInv'
    OBVIOUS
  <2>3. BufInv' /\ DmaReadsItsFrame'
    OBVIOUS
  <2> QED
    BY <2>1, <2>2, <2>3
<1>13. CASE IsrOther
  <2> USE <1>13 DEF IsrOther, taskVars
  <2>1. OneToken' /\ HwInv' /\ RingInv'
    OBVIOUS
  <2>2. MaskInv'
    OBVIOUS
  <2>3. BufInv' /\ DmaReadsItsFrame'
    OBVIOUS
  <2> QED
    BY <2>1, <2>2, <2>3
<1>14. CASE UNCHANGED vars
  <2> USE <1>14 DEF vars
  <2>1. OneToken' /\ HwInv' /\ RingInv'
    OBVIOUS
  <2>2. MaskInv'
    OBVIOUS
  <2>3. BufInv' /\ DmaReadsItsFrame'
    OBVIOUS
  <2> QED
    BY <2>1, <2>2, <2>3
<1> QED
  BY <1>1, <1>2, <1>3, <1>4, <1>5, <1>6, <1>7, <1>8,
     <1>9, <1>10, <1>11, <1>12, <1>13, <1>14 DEF Next, TaskStep, IsrStep

\* Every reachable state satisfies the inductive invariant.
THEOREM Inductive == Spec => []IInv
<1>1. Init => IInv
  BY InitIInv
<1>2. IInv /\ [Next]_vars => IInv'
  BY NextIInv
<1> QED
  BY <1>1, <1>2, PTL DEF Spec

\* The variables keep their types; the copy loop stays inside the buffer.
THEOREM TypeCorrect == Spec => []TypeOK
<1>1. IInv => TypeOK
  BY DEF IInv
<1> QED
  BY <1>1, Inductive, PTL

\* The right to the transmit buffer is never duplicated and never dropped.
THEOREM TokenIsUnique == Spec => []OneToken
<1>1. IInv => OneToken
  BY DEF IInv
<1> QED
  BY <1>1, Inductive, PTL

\* No task overwrites the frame the DMA is sending.
THEOREM FrameIntegrity == Spec => []DmaReadsItsFrame
<1>1. IInv => DmaReadsItsFrame
  BY DEF IInv
<1> QED
  BY <1>1, Inductive, PTL

\* The window between giving the semaphore and releasing the ring is closed
\* to tasks, because the handler runs to its end before any of them moves.
THEOREM RetryNeverNeeded == Spec => []PostFindsRingFree
<1>1. ASSUME IInv PROVE PostFindsRingFree
  <2>1. SUFFICES ASSUME NEW t \in Senders, pc[t] = "post" PROVE nbAvail = TX_RING
    BY DEF PostFindsRingFree
  <2>2. ~InFlight
    BY <1>1, <2>1 DEF IInv, OneToken, Holding
  <2>3. ~plic
    BY <1>1, <2>1 DEF IInv, MaskInv, Masking
  <2>4. isr = "off"
    BY <1>1, <2>3 DEF IInv, MaskInv
  <2> QED
    BY <1>1, <2>2, <2>4 DEF IInv, RingInv
<1> QED
  BY <1>1, Inductive, PTL

\* The MAC interrupt is masked only by a sender that will enable it again.
THEOREM InterruptRearmed == Spec => []IrqRearmed
<1>1. ASSUME IInv PROVE IrqRearmed
  BY <1>1 DEF IInv, MaskInv, Masking, IrqRearmed
<1> QED
  BY <1>1, Inductive, PTL

(***************************************************************************)
(* Refinement.  The holder is unique, so the CHOOSE of the mapping is that *)
(* holder; each step then claims, launches, lands or faults the slot.      *)
(***************************************************************************)

LEMMA HolderIsOwner ==
  ASSUME IInv, NEW t \in Senders, Holding(t)
  PROVE  phase = "filling" /\ owner = t
<1>1. sem # 1
  BY DEF IInv, OneToken
<1>2. \A u \in Senders : Holding(u) => u = t
  BY DEF IInv, OneToken
<1> QED
  BY <1>1, <1>2 DEF phase, owner

LEMMA NobodyHolds ==
  ASSUME IInv, \A t \in Senders : ~Holding(t)
  PROVE  /\ owner = desc.by
         /\ phase = IF sem = 1 THEN "free" ELSE IF dma = "failed" THEN "dead" ELSE "flying"
  BY DEF phase, owner

LEMMA InitSlot == Init => Slot!Init
<1> SUFFICES ASSUME Init PROVE Slot!Init
  OBVIOUS
<1>1. \A t \in Senders : ~Holding(t)
  BY DEF Init, Holding
<1>2. sem = 1 /\ desc.by = NoTask
  BY DEF Init
<1> QED
  BY <1>1, <1>2 DEF Slot!Init, phase, owner

\* The two lemmas above, of the state after a step.
LEMMA HolderIsOwnerNext ==
  ASSUME IInv', NEW t \in Senders, Holding(t)'
  PROVE  phase' = "filling" /\ owner' = t
<1>1. sem' # 1
  BY DEF IInv, OneToken
<1>2. \A u \in Senders : Holding(u)' => u = t
  BY DEF IInv, OneToken
<1> QED
  BY <1>1, <1>2 DEF phase, owner

LEMMA NobodyHoldsNext ==
  ASSUME \A t \in Senders : ~Holding(t)'
  PROVE  /\ owner' = desc'.by
         /\ phase' = IF sem' = 1 THEN "free" ELSE IF dma' = "failed" THEN "dead" ELSE "flying"
  BY DEF phase, owner

LEMMA SlotUntouched ==
  ASSUME IInv, IInv', \A t \in Senders : Holding(t) <=> Holding(t)',
         UNCHANGED <<sem, desc>>, dma = "failed" <=> dma' = "failed"
  PROVE  UNCHANGED <<phase, owner>>
<1>1. CASE \E t \in Senders : Holding(t)
  <2>1. PICK t \in Senders : Holding(t)
    BY <1>1
  <2> QED
    BY <2>1, HolderIsOwner, HolderIsOwnerNext
<1>2. CASE \A t \in Senders : ~Holding(t)
  BY <1>2, NobodyHolds, NobodyHoldsNext
<1> QED
  BY <1>1, <1>2

LEMMA NextSlot == IInv /\ IInv' /\ [Next]_vars => [Slot!Next]_(Slot!vars)
<1> SUFFICES ASSUME IInv, IInv', [Next]_vars PROVE [Slot!Next]_(Slot!vars)
  OBVIOUS
<1> USE DEF Slot!vars, hwVars, isrVars
<1>0. ASSUME UNCHANGED <<phase, owner>> PROVE [Slot!Next]_(Slot!vars)
  BY <1>0
<1>1. ASSUME NEW t \in Senders, NEW n \in Parts, Output(t, n) PROVE UNCHANGED <<phase, owner>>
  BY <1>1, SlotUntouched DEF Output, Goto, Holding, IInv, TypeOK
<1>2. ASSUME NEW t \in Senders, TakeSemaphore(t) PROVE Slot!Claim(t)
  <2>1. \A u \in Senders : ~Holding(u)
    BY <1>2 DEF TakeSemaphore, IInv, OneToken
  <2>2. phase = "free"
    BY <1>2, <2>1, NobodyHolds DEF TakeSemaphore
  <2>3. Holding(t)'
    BY <1>2 DEF TakeSemaphore, Goto, Holding, IInv, TypeOK
  <2> QED
    BY <2>2, <2>3, HolderIsOwnerNext DEF Slot!Claim
<1>3. ASSUME NEW t \in Senders, CopyPbuf(t) PROVE UNCHANGED <<phase, owner>>
  BY <1>3, SlotUntouched DEF CopyPbuf, Goto, Holding, IInv, TypeOK
<1>4. ASSUME NEW t \in Senders, MaskIrq(t) PROVE UNCHANGED <<phase, owner>>
  BY <1>4, SlotUntouched DEF MaskIrq, Goto, Holding, IInv, TypeOK
<1>5. ASSUME NEW t \in Senders, PostFrame(t) PROVE Slot!Launch(t)
  <2>1. Holding(t) /\ Masking(t) /\ isr = "off"
    BY <1>5 DEF PostFrame, Goto, Holding, Masking
  <2>2. nbAvail = TX_RING
    BY <2>1 DEF IInv, OneToken, RingInv
  <2>3. desc'.by = t /\ dma' = "busy" /\ sem' = sem
    BY <1>5, <2>2 DEF PostFrame
  <2>4. sem # 1
    BY <2>1 DEF IInv, OneToken
  <2>5. \A u \in Senders : ~Holding(u)'
    BY <2>3 DEF IInv, OneToken, InFlight
  <2>6. phase' = "flying" /\ owner' = t
    BY <2>3, <2>4, <2>5, NobodyHoldsNext
  <2> QED
    BY <2>1, <2>6, HolderIsOwner DEF Slot!Launch
<1>6. ASSUME NEW t \in Senders, UnmaskIrq(t) PROVE UNCHANGED <<phase, owner>>
  BY <1>6, SlotUntouched DEF UnmaskIrq, Goto, Holding, IInv, TypeOK
<1>7. ASSUME HwComplete PROVE UNCHANGED <<phase, owner>>
  BY <1>7, SlotUntouched DEF HwComplete, taskVars, Holding
<1>8. ASSUME NEW bit \in Faults, HwFault(bit) PROVE Slot!Fault
  <2>1. dma = "busy" /\ dma' = "failed" /\ UNCHANGED <<sem, desc, pc, tx_status>>
    BY <1>8 DEF HwFault, taskVars
  <2>2. sem # 1 /\ \A u \in Senders : ~Holding(u)
    BY <2>1 DEF IInv, OneToken, InFlight
  <2>3. \A u \in Senders : ~Holding(u)'
    BY <2>1, <2>2 DEF Holding
  <2>4. phase = "flying" /\ owner = desc.by
    BY <2>1, <2>2, NobodyHolds
  <2>5. phase' = "dead" /\ owner' = desc.by
    BY <2>1, <2>2, <2>3, NobodyHoldsNext
  <2> QED
    BY <2>4, <2>5, <1>8 DEF Slot!Fault
<1>9. ASSUME IsrGive PROVE Slot!Land
  <2>1. isr = "give" /\ sem' = 1 /\ UNCHANGED <<desc, pc, tx_status, dma>>
    BY <1>9 DEF IsrGive
  <2>2. sem # 1 /\ dma # "failed" /\ \A u \in Senders : ~Holding(u)
    BY <2>1 DEF IInv, OneToken, InFlight, HwInv
  <2>3. \A u \in Senders : ~Holding(u)'
    BY <2>1, <2>2 DEF Holding
  <2>4. phase = "flying" /\ owner = desc.by
    BY <2>2, NobodyHolds
  <2>5. phase' = "free" /\ owner' = desc.by
    BY <2>1, <2>3, NobodyHoldsNext
  <2> QED
    BY <2>4, <2>5 DEF Slot!Land
<1>10. ASSUME IsrEnter \/ IsrTx \/ IsrRelease \/ IsrOther PROVE UNCHANGED <<phase, owner>>
  BY <1>10, SlotUntouched DEF IsrEnter, IsrTx, IsrRelease, IsrOther, taskVars, Holding
<1>11. ASSUME UNCHANGED vars PROVE UNCHANGED <<phase, owner>>
  BY <1>11, SlotUntouched DEF vars, Holding
<1> QED
  BY <1>0, <1>1, <1>2, <1>3, <1>4, <1>5, <1>6, <1>7, <1>8, <1>9, <1>10, <1>11
     DEF Next, TaskStep, IsrStep, Slot!Next

\* The transmit path is a one-slot transmitter: frames are claimed, launched
\* and landed one at a time, each launched by the sender that claimed it.
THEOREM RefinesTxSlot == Spec => ImplementsTxSlot
<1>1. Init => Slot!Init
  BY InitSlot
<1>2. IInv /\ IInv' /\ [Next]_vars => [Slot!Next]_(Slot!vars)
  BY NextSlot
<1> QED
  BY <1>1, <1>2, Inductive, PTL DEF Spec, ImplementsTxSlot, Slot!Spec
=============================================================================
