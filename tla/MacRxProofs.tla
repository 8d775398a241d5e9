----------------------------- MODULE MacRxProofs -----------------------------
(***************************************************************************)
(* Safety of the receive path for a ring of any size, any traffic and any  *)
(* of the receive errors, restarts included; and that it is a queue, while *)
(* the driver keeps up with the traffic.                                   *)
(***************************************************************************)
EXTENDS MacRxProps, TLAPS, FiniteSetTheorems, FunctionTheorems

USE RingAssumption, LimitAssumption, RxErrorsAssumption, BacklogAssumption

LEMMA Next1Index ==
  ASSUME NEW i \in Index
  PROVE  Next1(i) = IF i = RING - 1 THEN 0 ELSE i + 1
  BY SMTT(30) DEF Next1, Index

(***************************************************************************)
(* The inductive invariant.                                                *)
(***************************************************************************)

\* While low_level_init() posts the buffers nothing else moves.
PrimeInv ==
  count < RING =>
    /\ nb = RING - count /\ nextFree = count /\ first = 0
    /\ buf = [i \in Index |-> IF i < count THEN i ELSE NoBuffer]
    /\ used = [i \in Index |-> FALSE]
    /\ ~plic /\ isr = "off" /\ ~rxen /\ ~filling /\ intStatus = {}

\* Afterwards every descriptor keeps the buffer it was first given.
StockInv ==
  count = RING =>
    /\ buf = [i \in Index |-> i]
    /\ nb = IF isr \in {"copy", "repost"} THEN 1 ELSE 0
    /\ nextFree = IF isr = "clear" THEN Next1(first) ELSE first
    /\ isr \in {"copy", "repost"} => pkt = first /\ used[first]

\* The GEM has read a descriptor that was not marked used and still is not.
FetchInv == filling => ~used[hw]

\* A frame at the head of the ring without its interrupt bit is one that the
\* loop of rxpkt_handler() has yet to reach.
WakeInv == used[first] /\ "COMPLETE" \notin intStatus
             => isr \in {"scan", "copy", "repost", "clear"}

\* One pass of the handler counts at most two overruns.
TallyInv == overflow <= OverflowLimit + (IF isr = "off" THEN 0
                                         ELSE IF isr = "restart" \/ cause = 4 THEN 2
                                         ELSE IF cause = 3 THEN 1 ELSE 0)

IInv == DriverTypeOK /\ TallyInv /\ PrimeInv /\ StockInv /\ FetchInv /\ WakeInv

LEMMA InitIInv == Init => IInv
<1> SUFFICES ASSUME Init PROVE IInv
  OBVIOUS
<1> USE DEF Init, Index, Buffers, NoBuffer, Causes, RxBits, IsrLabels
<1>1. DriverTypeOK
  BY DEF DriverTypeOK
<1>2. TallyInv /\ PrimeInv /\ StockInv /\ FetchInv /\ WakeInv
  BY DEF TallyInv, PrimeInv, StockInv, FetchInv, WakeInv
<1> QED
  BY <1>1, <1>2 DEF IInv

(***************************************************************************)
(* The invariant is preserved: the types, then the ring while it is being  *)
(* stocked and after, then what the GEM and the interrupt bit have to do   *)
(* with it.                                                                *)
(***************************************************************************)
LEMMA NextIInv == IInv /\ [Next]_vars => IInv'
<1> SUFFICES ASSUME IInv, [Next]_vars PROVE IInv'
  OBVIOUS
<1> USE Next1Index DEF IInv, TallyInv, DriverTypeOK, Index, Buffers, NoBuffer, Causes, RxBits,
        IsrLabels, inits, ring, sw, isrs, hwVars, swVars, Raise, NextCause, ReceivePkt
<1>1. CASE Prime
  <2> USE <1>1 DEF Prime
  <2>1. DriverTypeOK'
    <3>1. /\ count' \in 0 .. RING
          /\ buf' \in [Index -> Buffers \cup {NoBuffer}]
          /\ nb' \in 0 .. RING /\ nextFree' \in Index /\ first' \in Index
      BY DEF PrimeInv, StockInv
    <3>2. used' \in [Index -> BOOLEAN]
      OBVIOUS
    <3>3. /\ overflow' \in 0 .. OverflowLimit + 2
          /\ isr' \in IsrLabels /\ cause' \in 1 .. Len(Causes)
      BY DEF PrimeInv, StockInv
    <3>4. /\ pending' \subseteq RxBits /\ intStatus' \subseteq RxBits
          /\ pkt' \in Buffers \cup {NoBuffer} /\ hw' \in Index
      OBVIOUS
    <3>5. plic' \in BOOLEAN /\ rxen' \in BOOLEAN /\ filling' \in BOOLEAN
      OBVIOUS
    <3> QED
      BY <3>1, <3>2, <3>3, <3>4, <3>5
  <2>2. PrimeInv'
    <3> SUFFICES ASSUME count' < RING PROVE PrimeInv'
      BY DEF PrimeInv
    <3>1. count' = count + 1 /\ nb = RING - count /\ nextFree = count
      BY DEF PrimeInv
    <3>2. nb' = RING - count' /\ nextFree' = count' /\ first' = 0
      BY <3>1 DEF PrimeInv
    <3>3. buf' = [k \in Index |-> IF k < count' THEN k ELSE NoBuffer]
      BY <3>1 DEF PrimeInv
    <3>4. used' = [k \in Index |-> FALSE]
      BY <3>1 DEF PrimeInv
    <3>5. ~plic' /\ isr' = "off" /\ ~rxen' /\ ~filling' /\ intStatus' = {}
      BY <3>1 DEF PrimeInv
    <3> QED
      BY <3>2, <3>3, <3>4, <3>5 DEF PrimeInv
  <2>3. StockInv'
    BY DEF PrimeInv, StockInv
  <2>4. TallyInv' /\ FetchInv' /\ WakeInv'
    BY DEF PrimeInv, StockInv, FetchInv, WakeInv
  <2> QED
    BY <2>1, <2>2, <2>3, <2>4
<1>2. CASE HwFetch
  <2> USE <1>2 DEF HwFetch
  <2>1. DriverTypeOK'
    OBVIOUS
  <2>2. PrimeInv'
    BY DEF PrimeInv
  <2>3. StockInv'
    BY DEF PrimeInv, StockInv
  <2>4. TallyInv' /\ FetchInv' /\ WakeInv'
    BY DEF PrimeInv, StockInv, FetchInv, WakeInv
  <2> QED
    BY <2>1, <2>2, <2>3, <2>4
<1>3. CASE HwNoBuffer
  <2> USE <1>3 DEF HwNoBuffer
  <2>1. DriverTypeOK'
    OBVIOUS
  <2>2. PrimeInv'
    BY DEF PrimeInv
  <2>3. StockInv'
    BY DEF PrimeInv, StockInv
  <2>4. TallyInv' /\ FetchInv' /\ WakeInv'
    BY DEF PrimeInv, StockInv, FetchInv, WakeInv
  <2> QED
    BY <2>1, <2>2, <2>3, <2>4
<1>4. CASE HwStore
  <2> USE <1>4 DEF HwStore
  <2>1. DriverTypeOK'
    <3>1. /\ count' \in 0 .. RING
          /\ buf' \in [Index -> Buffers \cup {NoBuffer}]
          /\ nb' \in 0 .. RING /\ nextFree' \in Index /\ first' \in Index
      BY DEF PrimeInv, StockInv
    <3>2. used' \in [Index -> BOOLEAN]
      OBVIOUS
    <3>3. /\ overflow' \in 0 .. OverflowLimit + 2
          /\ isr' \in IsrLabels /\ cause' \in 1 .. Len(Causes)
      BY DEF PrimeInv, StockInv
    <3>4. /\ pending' \subseteq RxBits /\ intStatus' \subseteq RxBits
          /\ pkt' \in Buffers \cup {NoBuffer} /\ hw' \in Index
      OBVIOUS
    <3>5. plic' \in BOOLEAN /\ rxen' \in BOOLEAN /\ filling' \in BOOLEAN
      OBVIOUS
    <3> QED
      BY <3>1, <3>2, <3>3, <3>4, <3>5
  <2>2. PrimeInv'
    BY DEF PrimeInv
  <2>3. StockInv'
    BY DEF PrimeInv, StockInv
  <2>4. TallyInv' /\ FetchInv' /\ WakeInv'
    BY DEF PrimeInv, StockInv, FetchInv, WakeInv
  <2> QED
    BY <2>1, <2>2, <2>3, <2>4
<1>5. CASE HwOverrun
  <2> USE <1>5 DEF HwOverrun
  <2>1. DriverTypeOK'
    OBVIOUS
  <2>2. PrimeInv'
    BY DEF PrimeInv
  <2>3. StockInv'
    BY DEF PrimeInv, StockInv
  <2>4. TallyInv' /\ FetchInv' /\ WakeInv'
    BY DEF PrimeInv, StockInv, FetchInv, WakeInv
  <2> QED
    BY <2>1, <2>2, <2>3, <2>4
<1>6. CASE HwRespNotOk
  <2> USE <1>6 DEF HwRespNotOk
  <2>1. DriverTypeOK'
    OBVIOUS
  <2>2. PrimeInv'
    BY DEF PrimeInv
  <2>3. StockInv'
    BY DEF PrimeInv, StockInv
  <2>4. TallyInv' /\ FetchInv' /\ WakeInv'
    BY DEF PrimeInv, StockInv, FetchInv, WakeInv
  <2> QED
    BY <2>1, <2>2, <2>3, <2>4
<1>7. CASE IsrEnter
  <2> USE <1>7 DEF IsrEnter
  <2>1. DriverTypeOK'
    OBVIOUS
  <2>2. PrimeInv'
    BY DEF PrimeInv
  <2>3. StockInv'
    BY DEF PrimeInv, StockInv
  <2>4. TallyInv' /\ FetchInv' /\ WakeInv'
    BY DEF PrimeInv, StockInv, FetchInv, WakeInv
  <2> QED
    BY <2>1, <2>2, <2>3, <2>4
<1>8. CASE IsrAck
  <2> USE <1>8 DEF IsrAck
  <2>1. DriverTypeOK'
    <3>1. /\ count' \in 0 .. RING
          /\ buf' \in [Index -> Buffers \cup {NoBuffer}]
          /\ nb' \in 0 .. RING /\ nextFree' \in Index /\ first' \in Index
      BY DEF PrimeInv, StockInv
    <3>2. used' \in [Index -> BOOLEAN]
      OBVIOUS
    <3>3. /\ overflow' \in 0 .. OverflowLimit + 2
          /\ isr' \in IsrLabels /\ cause' \in 1 .. Len(Causes)
      BY DEF PrimeInv, StockInv
    <3>4. /\ pending' \subseteq RxBits /\ intStatus' \subseteq RxBits
          /\ pkt' \in Buffers \cup {NoBuffer} /\ hw' \in Index
      OBVIOUS
    <3>5. plic' \in BOOLEAN /\ rxen' \in BOOLEAN /\ filling' \in BOOLEAN
      OBVIOUS
    <3> QED
      BY <3>1, <3>2, <3>3, <3>4, <3>5
  <2>2. PrimeInv'
    BY DEF PrimeInv
  <2>3. StockInv'
    BY DEF PrimeInv, StockInv
  <2>4. TallyInv' /\ FetchInv' /\ WakeInv'
    BY DEF PrimeInv, StockInv, FetchInv, WakeInv
  <2> QED
    BY <2>1, <2>2, <2>3, <2>4
<1>9. CASE RxScan
  <2> USE <1>9 DEF RxScan
  <2>1. DriverTypeOK'
    <3>1. /\ count' \in 0 .. RING
          /\ buf' \in [Index -> Buffers \cup {NoBuffer}]
          /\ nb' \in 0 .. RING /\ nextFree' \in Index /\ first' \in Index
      BY DEF PrimeInv, StockInv
    <3>2. used' \in [Index -> BOOLEAN]
      OBVIOUS
    <3>3. /\ overflow' \in 0 .. OverflowLimit + 2
          /\ isr' \in IsrLabels /\ cause' \in 1 .. Len(Causes)
      BY DEF PrimeInv, StockInv
    <3>4. /\ pending' \subseteq RxBits /\ intStatus' \subseteq RxBits
          /\ pkt' \in Buffers \cup {NoBuffer} /\ hw' \in Index
      OBVIOUS
    <3>5. plic' \in BOOLEAN /\ rxen' \in BOOLEAN /\ filling' \in BOOLEAN
      OBVIOUS
    <3> QED
      BY <3>1, <3>2, <3>3, <3>4, <3>5
  <2>2. PrimeInv'
    BY DEF PrimeInv
  <2>3. StockInv'
    BY DEF PrimeInv, StockInv
  <2>4. TallyInv' /\ FetchInv' /\ WakeInv'
    BY DEF PrimeInv, StockInv, FetchInv, WakeInv
  <2> QED
    BY <2>1, <2>2, <2>3, <2>4
<1>10. CASE RxCopy
  <2> USE <1>10 DEF RxCopy
  <2>1. DriverTypeOK'
    OBVIOUS
  <2>2. PrimeInv'
    BY DEF PrimeInv
  <2>3. StockInv'
    BY DEF PrimeInv, StockInv
  <2>4. TallyInv' /\ FetchInv' /\ WakeInv'
    BY DEF PrimeInv, StockInv, FetchInv, WakeInv
  <2> QED
    BY <2>1, <2>2, <2>3, <2>4
<1>11. CASE RxRepost
  <2> USE <1>11 DEF RxRepost
  <2>1. DriverTypeOK'
    <3>1. /\ count' \in 0 .. RING
          /\ buf' \in [Index -> Buffers \cup {NoBuffer}]
          /\ nb' \in 0 .. RING /\ nextFree' \in Index /\ first' \in Index
      BY DEF PrimeInv, StockInv
    <3>2. used' \in [Index -> BOOLEAN]
      OBVIOUS
    <3>3. /\ overflow' \in 0 .. OverflowLimit + 2
          /\ isr' \in IsrLabels /\ cause' \in 1 .. Len(Causes)
      BY DEF PrimeInv, StockInv
    <3>4. /\ pending' \subseteq RxBits /\ intStatus' \subseteq RxBits
          /\ pkt' \in Buffers \cup {NoBuffer} /\ hw' \in Index
      OBVIOUS
    <3>5. plic' \in BOOLEAN /\ rxen' \in BOOLEAN /\ filling' \in BOOLEAN
      OBVIOUS
    <3> QED
      BY <3>1, <3>2, <3>3, <3>4, <3>5
  <2>2. PrimeInv'
    BY DEF PrimeInv
  <2>3. StockInv'
    BY DEF PrimeInv, StockInv
  <2>4. TallyInv' /\ FetchInv' /\ WakeInv'
    BY DEF PrimeInv, StockInv, FetchInv, WakeInv
  <2> QED
    BY <2>1, <2>2, <2>3, <2>4
<1>12. CASE RxClear
  <2> USE <1>12 DEF RxClear
  <2>1. DriverTypeOK'
    OBVIOUS
  <2>2. PrimeInv'
    BY DEF PrimeInv
  <2>3. StockInv'
    BY DEF PrimeInv, StockInv
  <2>4. TallyInv' /\ FetchInv' /\ WakeInv'
    BY DEF PrimeInv, StockInv, FetchInv, WakeInv
  <2> QED
    BY <2>1, <2>2, <2>3, <2>4
<1>13. CASE IsrTally
  <2>0. /\ overflow' \in 0 .. overflow + 1
        /\ cause = 1 \/ cause = 4 => overflow' <= overflow
        /\ isr = "tally"
        /\ IF cause = 4 THEN isr' = "restart" /\ cause' = cause
                        ELSE isr' = "ack" /\ cause' = cause + 1
    <3>1. CASE cause = 1
      BY <1>13, <3>1 DEF IsrTally
    <3>2. CASE cause = 2
      BY <1>13, <3>2, SMTT(30) DEF IsrTally
    <3>3. CASE cause = 3
      BY <1>13, <3>3, SMTT(30) DEF IsrTally
    <3>4. CASE cause = 4
      BY <1>13, <3>4 DEF IsrTally
    <3> QED
      BY <3>1, <3>2, <3>3, <3>4
  <2>1. UNCHANGED <<count, ring, sw, plic, pending, pkt, intStatus, hw, filling>>
    BY <1>13 DEF IsrTally
  <2>2. rxen' \in BOOLEAN
    BY <1>13 DEF IsrTally
  <2>3. cause \in 1 .. 4 /\ Len(Causes) = 4
    OBVIOUS
  <2>4. isr' \in IsrLabels /\ cause' \in 1 .. 4
    BY <2>0, <2>3
  <2>5. overflow' \in 0 .. OverflowLimit + 2
    BY <2>0, <2>3
  <2>6. DriverTypeOK'
    BY <2>1, <2>2, <2>3, <2>4, <2>5
  <2>7. TallyInv'
    BY <2>0, <2>3
  <2>8. PrimeInv' /\ StockInv' /\ FetchInv' /\ WakeInv'
    BY <2>0, <2>1, <2>3 DEF PrimeInv, StockInv, FetchInv, WakeInv
  <2> QED
    BY <2>6, <2>7, <2>8
<1>14. CASE IsrRestart
  <2> USE <1>14 DEF IsrRestart
  <2>1. DriverTypeOK'
    <3>1. /\ count' \in 0 .. RING
          /\ buf' \in [Index -> Buffers \cup {NoBuffer}]
          /\ nb' \in 0 .. RING /\ nextFree' \in Index /\ first' \in Index
      BY DEF PrimeInv, StockInv
    <3>2. used' \in [Index -> BOOLEAN]
      OBVIOUS
    <3>3. /\ overflow' \in 0 .. OverflowLimit + 2
          /\ isr' \in IsrLabels /\ cause' \in 1 .. Len(Causes)
      BY DEF PrimeInv, StockInv
    <3>4. /\ pending' \subseteq RxBits /\ intStatus' \subseteq RxBits
          /\ pkt' \in Buffers \cup {NoBuffer} /\ hw' \in Index
      OBVIOUS
    <3>5. plic' \in BOOLEAN /\ rxen' \in BOOLEAN /\ filling' \in BOOLEAN
      OBVIOUS
    <3> QED
      BY <3>1, <3>2, <3>3, <3>4, <3>5
  <2>2. PrimeInv'
    BY DEF PrimeInv
  <2>3. StockInv'
    BY DEF PrimeInv, StockInv
  <2>4. TallyInv' /\ FetchInv' /\ WakeInv'
    BY DEF PrimeInv, StockInv, FetchInv, WakeInv
  <2> QED
    BY <2>1, <2>2, <2>3, <2>4
<1>15. CASE UNCHANGED vars
  <2> USE <1>15 DEF vars
  <2>1. DriverTypeOK'
    OBVIOUS
  <2>2. PrimeInv'
    BY DEF PrimeInv
  <2>3. StockInv'
    BY DEF PrimeInv, StockInv
  <2>4. TallyInv' /\ FetchInv' /\ WakeInv'
    BY DEF PrimeInv, StockInv, FetchInv, WakeInv
  <2> QED
    BY <2>1, <2>2, <2>3, <2>4
<1> QED
  BY <1>1, <1>2, <1>3, <1>4, <1>5, <1>6, <1>7, <1>8,
     <1>9, <1>10, <1>11, <1>12, <1>13, <1>14, <1>15 DEF Next, IsrStep, HwStep

\* Every reachable state satisfies the inductive invariant.
THEOREM Inductive == Spec => []IInv
<1> QED
  BY InitIInv, NextIInv, PTL DEF Spec

\* The driver's count and indices stay within the ring, its labels where the
\* code can be, and overflow_counter within what one pass may add.
THEOREM TypeCorrect == Spec => []DriverTypeOK
<1>1. IInv => DriverTypeOK
  BY DEF IInv
<1> QED
  BY <1>1, Inductive, PTL

\* Every buffer is in the ring or in the handler's hands, whatever the size
\* of the ring, whether pbufs run out or not, and across restarts.
THEOREM BuffersConserved == Spec => []RingRestocked
<1>1. ASSUME IInv PROVE RingRestocked
  <2> SUFFICES ASSUME count = RING PROVE RingRestocked
    BY DEF RingRestocked
  <2>1. buf = [i \in Index |-> i]
    BY <1>1 DEF IInv, StockInv
  <2>2. {buf[i] : i \in Index} = Buffers
    BY <2>1 DEF Index, Buffers
  <2>3. first \in Index /\ buf[first] = first
    BY <1>1, <2>1 DEF IInv, DriverTypeOK
  <2> QED
    BY <1>1, <2>2, <2>3 DEF IInv, StockInv, RingRestocked
<1> QED
  BY <1>1, Inductive, PTL

\* The DMA does not write where the callback is reading.
THEOREM CopyIsStable == Spec => []CopyStable
<1>1. ASSUME IInv PROVE CopyStable
  <2> SUFFICES ASSUME isr = "copy", filling PROVE buf[hw] # pkt
    BY DEF CopyStable
  <2>1. count = RING
    BY <1>1 DEF IInv, DriverTypeOK, PrimeInv
  <2>2. buf = [i \in Index |-> i] /\ pkt = first /\ used[first]
    BY <1>1, <2>1 DEF IInv, StockInv
  <2>3. hw \in Index /\ hw # first
    BY <1>1, <2>2 DEF IInv, DriverTypeOK, FetchInv
  <2> QED
    BY <2>2, <2>3
<1> QED
  BY <1>1, Inductive, PTL

\* The order of the calls in low_level_init() keeps the DMA from address 0.
THEOREM DmaIsStocked == Spec => []DmaHasBuffer
<1>1. ASSUME IInv PROVE DmaHasBuffer
  <2> SUFFICES ASSUME filling PROVE buf[hw] # NoBuffer
    BY DEF DmaHasBuffer
  <2>1. count = RING
    BY <1>1 DEF IInv, DriverTypeOK, PrimeInv
  <2>2. buf = [i \in Index |-> i] /\ hw \in Index
    BY <1>1, <2>1 DEF IInv, StockInv, DriverTypeOK
  <2> QED
    BY <2>2 DEF Index, NoBuffer
<1> QED
  BY <1>1, Inductive, PTL

\* No received frame at the head of the ring is left without its interrupt.
THEOREM WakeupNotLost == Spec => []InterruptNotLost
<1>1. ASSUME IInv PROVE InterruptNotLost
  BY <1>1 DEF IInv, WakeInv, InterruptNotLost
<1> QED
  BY <1>1, Inductive, PTL

-----------------------------------------------------------------------------
(* The receiver is a queue, while the ring is never completely full and    *)
(* the receive FIFO does not overrun.                                      *)

\* Then the GEM finds every descriptor free and is never sent back to the
\* base of the ring.
QuietInv ==
  /\ "OVERRUN" \notin intStatus \cup pending /\ "USED" \notin intStatus \cup pending
  /\ overflow = 0
  /\ isr \in {"scan", "copy", "repost", "clear", "tally"} => Causes[cause] \in pending

\* The k-th descriptor from the driver's place in the ring on, up to a turn.
Pos(k) == IF first + k >= RING THEN first + k - RING ELSE first + k

\* The frame handed up that is still in front of the driver, and whether its
\* descriptor still says so.
Taken  == IF isr \in {"repost", "clear"} THEN 1 ELSE 0
InHand == IF isr = "repost" THEN 1 ELSE 0

Queued(k) == Taken <= k /\ k < Taken + Len(arrived)

\* The frames that wait lie in the descriptors from there on, in order, and
\* the GEM is at the one behind the last.
OrderInv ==
  /\ arrived \in Seq(Buffers)
  /\ count < RING => arrived = <<>>
  /\ count = RING =>
       /\ Len(arrived) + InHand <= MaxBacklog
       /\ filling => Len(arrived) + InHand < MaxBacklog
       /\ isr = "copy" => arrived # <<>>
       /\ hw = Pos(Taken + Len(arrived))
       /\ \A i \in 1 .. Len(arrived) : arrived[i] = Pos(Taken + i - 1)
       /\ \A k \in Index : /\ used[Pos(k)] => Queued(k) \/ (isr = "repost" /\ k = 0)
                           /\ Queued(k) \/ (isr = "repost" /\ k = 0) => used[Pos(k)]

\* Places in the ring: they are descriptors, no two the same, and each
\* descriptor is one.
LEMMA PosFacts ==
  ASSUME first \in Index
  PROVE  /\ \A k \in 0 .. RING : Pos(k) \in Index
         /\ \A k, l \in Index : Pos(k) = Pos(l) => k = l
         /\ \A i \in Index : \E k \in Index : Pos(k) = i
         /\ Pos(0) = first /\ Pos(RING) = first
         /\ \A k \in Index : Pos(k + 1) = Next1(Pos(k))
<1> USE DEF Index, Pos
<1>1. \A k \in 0 .. RING : Pos(k) \in Index
  OBVIOUS
<1>2. \A k, l \in Index : Pos(k) = Pos(l) => k = l
  OBVIOUS
<1>3. \A i \in Index : \E k \in Index : Pos(k) = i
  <2> TAKE i \in Index
  <2>1. CASE i >= first
    <3>1. i - first \in Index /\ Pos(i - first) = i
      BY <2>1
    <3> QED
      BY <3>1
  <2>2. CASE i < first
    <3>1. i + RING - first \in Index /\ Pos(i + RING - first) = i
      BY <2>2
    <3> QED
      BY <3>1
  <2> QED
    BY <2>1, <2>2
<1>4. Pos(0) = first /\ Pos(RING) = first
  OBVIOUS
<1>5. \A k \in Index : Pos(k + 1) = Next1(Pos(k))
  BY <1>1, Next1Index
<1> QED
  BY <1>1, <1>2, <1>3, <1>4, <1>5

\* The next descriptor starts the same ring, one place on.
LEMMA PosNext ==
  ASSUME first \in Index, first' = Next1(first)
  PROVE  \A k \in Index : Pos(k)' = Pos(k + 1)
<1>1. first' = IF first = RING - 1 THEN 0 ELSE first + 1
  BY Next1Index
<1> QED
  BY <1>1 DEF Index, Pos

\* A frame not there is not removed, and the first is removed by its place.
LEMMA WithoutAbsent ==
  ASSUME NEW b, \A i \in DOMAIN arrived : arrived[i] # b
  PROVE  Without(b) = arrived
BY DEF Without

LEMMA WithoutFirst ==
  ASSUME arrived \in Seq(Buffers), arrived # <<>>, NEW b, arrived[1] = b,
         \A i \in DOMAIN arrived : arrived[i] = b => i = 1
  PROVE  Without(b) = Tail(arrived)
<1>1. 1 \in DOMAIN arrived /\ Len(arrived) \in Nat \ {0}
  OBVIOUS
<1>2. (CHOOSE j \in DOMAIN arrived : arrived[j] = b) = 1
  BY <1>1
<1>3. Without(b) = SubSeq(arrived, 1, 0) \o SubSeq(arrived, 2, Len(arrived))
  BY <1>1, <1>2 DEF Without
<1>4. SubSeq(arrived, 1, 0) = <<>> /\ SubSeq(arrived, 2, Len(arrived)) = Tail(arrived)
  BY <1>1
<1> QED
  BY <1>3, <1>4

\* The GEM fetches a descriptor only while the ring has room for one more: as
\* many descriptors are marked used as there are frames not posted again.
LEMMA UsedCount ==
  ASSUME IInv, OrderInv, count = RING, MaxBacklog < RING
  PROVE  Len(arrived) + InHand <= Cardinality({i \in Index : used[i]})
<1> DEFINE n == Len(arrived)
           m == n + InHand
           from == Taken - InHand
           U == {i \in Index : used[i]}
           f == [j \in 1 .. m |-> Pos(from + j - 1)]
<1>1. n \in Nat /\ InHand \in {0, 1} /\ Taken \in {0, 1} /\ from \in {0, 1}
      /\ m \in 0 .. RING /\ m \in Nat /\ first \in Index
  BY DEF OrderInv, InHand, Taken, IInv, DriverTypeOK
<1>2. \A j \in 1 .. m : from + j - 1 \in Index
  BY <1>1 DEF Index, Taken, InHand, OrderInv
<1>3. \A j \in 1 .. m : f[j] \in Index /\ used[f[j]]
  <2> TAKE j \in 1 .. m
  <2> DEFINE k == from + j - 1
  <2>1. k \in Index /\ f[j] = Pos(k)
    BY <1>2
  <2>2. Queued(k) \/ (isr = "repost" /\ k = 0)
    BY <1>1 DEF Queued, Taken, InHand
  <2> HIDE DEF k
  <2>3. used[Pos(k)]
    BY <2>1, <2>2 DEF OrderInv
  <2>4. Pos(k) \in Index
    BY <1>1, <2>1, PosFacts DEF Index
  <2> QED
    BY <2>1, <2>3, <2>4
<1>4. \A j, l \in 1 .. m : f[j] = f[l] => j = l
  <2> TAKE j, l \in 1 .. m
  <2> HAVE f[j] = f[l]
  <2>1. Pos(from + j - 1) = Pos(from + l - 1)
    OBVIOUS
  <2>2. from + j - 1 = from + l - 1
    BY <1>1, <1>2, <2>1, PosFacts
  <2> QED
    BY <1>1, <2>2
<1>5. f \in [1 .. m -> U]
  BY <1>3
<1>6. f \in Injection(1 .. m, U)
  <2> HIDE DEF f, m, U
  <2> QED
    BY <1>4, <1>5 DEF Injection, IsInjective
<1>7. IsFiniteSet(U)
  <2>1. IsFiniteSet(Index)
    BY FS_Interval DEF Index
  <2> QED
    BY <2>1, FS_Subset
<1>8. Cardinality(1 .. m) <= Cardinality(U)
  BY <1>6, <1>7, FS_Injection
<1>9. Cardinality(1 .. m) = m
  <2> HIDE DEF m
  <2>1. Cardinality(1 .. m) = IF 1 > m THEN 0 ELSE m - 1 + 1
    BY <1>1, FS_Interval
  <2> QED
    BY <1>1, <2>1
<1> QED
  BY <1>8, <1>9

\* The traffic the receiver keeps up with.
Paced == MaxBacklog < RING /\ "OVERRUN" \notin RxErrors

LEMMA InitOrder == Init => QuietInv /\ OrderInv
<1> SUFFICES ASSUME Init PROVE QuietInv /\ OrderInv
  OBVIOUS
<1> USE DEF Init
<1>1. QuietInv
  BY DEF QuietInv
<1>2. arrived \in Seq(Buffers) /\ arrived = <<>>
  OBVIOUS
<1>3. count < RING
  OBVIOUS
<1> QED
  BY <1>1, <1>2, <1>3 DEF OrderInv

\* Nothing has the GEM drop a frame or go back.
LEMMA FindsRoom ==
  ASSUME Paced, IInv, OrderInv, rxen
  PROVE  count = RING /\ ~used[hw]
<1> USE DEF IInv, DriverTypeOK
<1>1. count = RING
  BY DEF PrimeInv
<1> DEFINE k == Taken + Len(arrived)
<1>2. /\ Len(arrived) \in Nat /\ first \in Index /\ hw = Pos(k) /\ MaxBacklog < RING
      /\ Len(arrived) + InHand <= MaxBacklog
  BY <1>1 DEF OrderInv, Paced
<1>3. CASE k \in Index
  <2>1. ~Queued(k) /\ ~(isr = "repost" /\ k = 0)
    BY <1>2 DEF Queued, Taken
  <2> HIDE DEF k
  <2>2. ~used[Pos(k)]
    BY <1>1, <1>3, <2>1 DEF OrderInv
  <2> QED
    BY <1>1, <1>2, <2>2
<1>4. CASE k \notin Index
  <2>1. k = RING /\ isr = "clear"
    BY <1>2, <1>4 DEF Index, Taken, InHand
  <2>2. Pos(k) = first /\ Pos(0) = first
    BY <1>2, <2>1, PosFacts
  <2>3. ~Queued(0) /\ ~(isr = "repost" /\ 0 = 0)
    BY <2>1 DEF Queued, Taken
  <2>4. 0 \in Index
    BY DEF Index
  <2>5. ~used[Pos(0)]
    BY <1>1, <2>3, <2>4 DEF OrderInv
  <2> QED
    BY <1>1, <1>2, <2>2, <2>5
<1> QED
  BY <1>3, <1>4

LEMMA QuietStep == Paced /\ IInv /\ QuietInv /\ OrderInv /\ [Next]_vars => QuietInv'
<1> SUFFICES ASSUME Paced, IInv, QuietInv, OrderInv, [Next]_vars PROVE QuietInv'
  OBVIOUS
<1> USE DEF QuietInv, inits, ring, sw, isrs, hwVars, swVars, Raise, NextCause, ReceivePkt
<1>1. CASE Prime
  BY <1>1 DEF Prime, IInv, PrimeInv
<1>2. CASE HwFetch
  BY <1>2 DEF HwFetch
<1>3. CASE HwNoBuffer
  BY <1>3, FindsRoom DEF HwNoBuffer
<1>4. CASE HwStore
  BY <1>4 DEF HwStore
<1>5. CASE HwOverrun
  BY <1>5 DEF HwOverrun, Paced
<1>6. CASE HwRespNotOk
  BY <1>6 DEF HwRespNotOk
<1>7. CASE IsrEnter
  BY <1>7 DEF IsrEnter
<1>8. CASE IsrAck
  BY <1>8 DEF IsrAck
<1>9. CASE RxScan
  BY <1>9 DEF RxScan
<1>10. CASE RxCopy
  BY <1>10 DEF RxCopy
<1>11. CASE RxRepost
  BY <1>11 DEF RxRepost
<1>12. CASE RxClear
  BY <1>12 DEF RxClear
<1>13. CASE IsrTally
  <2>1. Causes[cause] \in {"COMPLETE", "RESP"}
    BY <1>13 DEF IsrTally, IInv, DriverTypeOK, Causes
  <2>2. overflow' = 0
    BY <1>13, <2>1 DEF IsrTally
  <2>3. isr' \in {"restart", "ack"} /\ UNCHANGED <<pending, intStatus>>
    BY <1>13 DEF IsrTally
  <2> QED
    BY <2>2, <2>3
<1>14. CASE IsrRestart
  BY <1>14 DEF IsrRestart
<1>15. CASE UNCHANGED vars
  BY <1>15 DEF vars
<1> QED
  BY <1>1, <1>2, <1>3, <1>4, <1>5, <1>6, <1>7, <1>8, <1>9, <1>10, <1>11, <1>12, <1>13, <1>14,
     <1>15 DEF Next, IsrStep, HwStep

\* The places of the frames, for a step that moves neither the frames nor the
\* driver's and the GEM's places.
LEMMA OrderKept ==
  ASSUME OrderInv, UNCHANGED <<arrived, count, used, hw, first>>,
         Taken' = Taken, InHand' = InHand,
         isr' = "repost" => isr = "repost", isr = "repost" => isr' = "repost",
         filling' => filling \/ (count = RING => Len(arrived) + InHand < MaxBacklog),
         isr' = "copy" => isr = "copy" \/ (count = RING => arrived # <<>>)
  PROVE  OrderInv'
<1>1. \A k \in Index : Pos(k)' = Pos(k) /\ (Queued(k)' <=> Queued(k))
  BY DEF Pos, Queued
<1>2. \A i \in 1 .. Len(arrived) : Pos(Taken + i - 1)' = Pos(Taken + i - 1)
  BY DEF Pos
<1>3. Pos(Taken + Len(arrived))' = Pos(Taken + Len(arrived))
  BY DEF Pos
<1> QED
  BY <1>1, <1>2, <1>3 DEF OrderInv

\* The last buffer of low_level_init() is posted and the GEM set to the base.
LEMMA PrimeOrder ==
  ASSUME IInv, IInv', OrderInv, Prime
  PROVE  OrderInv'
<1> USE DEF IInv
<1>1. /\ count < RING /\ count' = count + 1 /\ arrived = <<>> /\ arrived' = <<>>
      /\ isr' = "off" /\ first' = 0 /\ ~filling'
  BY DEF Prime, PrimeInv, OrderInv, ReceivePkt, isrs, sw, hwVars
<1>2. Taken' = 0 /\ InHand' = 0 /\ Len(arrived') = 0
  BY <1>1 DEF Taken, InHand
<1>3. CASE count' < RING
  BY <1>1, <1>3 DEF OrderInv
<1>4. CASE count' = RING
  <2>1. hw' = 0 /\ used' = [i \in Index |-> FALSE]
    BY <1>1, <1>4 DEF Prime, PrimeInv, ReceivePkt, DriverTypeOK, Index
  <2>2. Pos(0)' = 0
    BY <1>1 DEF Pos
  <2>3. ASSUME NEW k \in Index
        PROVE  ~used[Pos(k)]' /\ ~Queued(k)' /\ ~(isr' = "repost" /\ k = 0)
    <3>1. Pos(k)' \in Index
      BY <1>1 DEF Pos, Index
    <3>2. ~Queued(k)'
      BY <1>2 DEF Queued, Index
    <3> QED
      BY <1>1, <2>1, <3>1, <3>2
  <2>4. Pos(Taken + Len(arrived))' = Pos(0)'
    BY <1>2 DEF Pos
  <2>5. 0 < MaxBacklog
    OBVIOUS
  <2>6. arrived' \in Seq(Buffers) /\ 1 .. Len(arrived') = {}
    BY <1>1, <1>2
  <2>7. Len(arrived') + InHand' <= MaxBacklog
    BY <1>2, <2>5
  <2> QED
    BY <1>1, <1>4, <2>1, <2>2, <2>3, <2>4, <2>6, <2>7 DEF OrderInv
<1>5. count' <= RING /\ count' \in Nat
  BY DEF DriverTypeOK
<1> QED
  BY <1>3, <1>4, <1>5

\* What the frames' places say of the descriptor the GEM has read.
LEMMA StoreFacts ==
  ASSUME Paced, IInv, OrderInv, filling
  PROVE  /\ count = RING /\ buf[hw] = hw /\ hw \in Buffers
         /\ Taken + Len(arrived) \in Index /\ hw = Pos(Taken + Len(arrived))
         /\ \A i \in DOMAIN arrived : arrived[i] # hw
<1> USE DEF IInv, DriverTypeOK
<1>1. count = RING
  BY DEF PrimeInv
<1>2. buf[hw] = hw /\ hw \in Buffers
  BY <1>1 DEF StockInv, Index, Buffers
<1>3. /\ Len(arrived) \in Nat /\ first \in Index /\ hw = Pos(Taken + Len(arrived))
      /\ Len(arrived) + InHand < MaxBacklog /\ MaxBacklog < RING
      /\ Taken \in {0, 1}
  BY <1>1 DEF OrderInv, Paced, Taken
<1>4. Taken + Len(arrived) \in Index
  BY <1>3 DEF Index, InHand
<1>5. ASSUME NEW i \in DOMAIN arrived PROVE arrived[i] # hw
  <2>1. i \in 1 .. Len(arrived)
    BY DEF OrderInv
  <2>2. arrived[i] = Pos(Taken + i - 1)
    BY <1>1, <2>1 DEF OrderInv
  <2>3. Taken + i - 1 \in Index /\ Taken + i - 1 # Taken + Len(arrived)
    BY <1>3, <1>4, <2>1 DEF Index
  <2> QED
    BY <1>3, <1>4, <2>2, <2>3, PosFacts
<1> QED
  BY <1>1, <1>2, <1>3, <1>4, <1>5

\* A frame goes to the end of the queue.
LEMMA StoreOrder ==
  ASSUME Paced, IInv, OrderInv, HwStore
  PROVE  OrderInv' /\ arrived' = Append(arrived, buf[hw])
<1> DEFINE n == Len(arrived)
<1>1. filling /\ ~filling' /\ first \in Index /\ used \in [Index -> BOOLEAN]
  BY DEF HwStore, IInv, DriverTypeOK
<1>2. /\ count = RING /\ buf[hw] = hw /\ hw \in Buffers /\ hw \in Index
      /\ Taken + n \in Index /\ hw = Pos(Taken + n)
      /\ arrived \in Seq(Buffers) /\ n \in Nat /\ Taken \in {0, 1} /\ InHand \in {0, 1}
      /\ n + InHand < MaxBacklog
  BY <1>1, StoreFacts DEF IInv, DriverTypeOK, OrderInv, Taken, InHand
<1>3. arrived' = Append(arrived, hw)
  BY <1>1, <1>2, StoreFacts, WithoutAbsent DEF HwStore
<1>4. /\ UNCHANGED <<count, isr, first>> /\ hw' = Next1(hw)
      /\ used' = [used EXCEPT ![hw] = TRUE]
  BY DEF HwStore, swVars, inits, sw, isrs
<1>5. Taken' = Taken /\ InHand' = InHand /\ \A k : Pos(k)' = Pos(k)
  BY <1>4 DEF Taken, InHand, Pos
<1>6. Len(arrived') = n + 1 /\ arrived' \in Seq(Buffers)
  BY <1>2, <1>3
<1>7. hw' = Pos(Taken + Len(arrived))'
  <2>1. hw' = Pos(Taken + n + 1)
    BY <1>1, <1>2, <1>4, PosFacts
  <2>2. Taken' + Len(arrived') = Taken + n + 1
    BY <1>2, <1>5, <1>6
  <2> HIDE DEF n
  <2> QED
    BY <1>4, <2>1, <2>2 DEF Pos
<1>8. \A i \in 1 .. Len(arrived') : arrived'[i] = Pos(Taken + i - 1)'
  <2> TAKE i \in 1 .. Len(arrived')
  <2>1. Pos(Taken + i - 1)' = Pos(Taken + i - 1)
    BY <1>4, <1>5 DEF Pos
  <2>2. CASE i = n + 1
    <3>1. arrived'[i] = hw /\ Taken + i - 1 = Taken + n
      BY <1>2, <1>3, <2>2
    <3> QED
      BY <1>2, <2>1, <3>1
  <2>3. CASE i # n + 1
    <3>1. i \in 1 .. n /\ arrived'[i] = arrived[i]
      BY <1>2, <1>3, <1>6, <2>3
    <3> QED
      BY <1>2, <2>1, <3>1 DEF OrderInv
  <2> QED
    BY <2>2, <2>3
<1>9. ASSUME NEW k \in Index
      PROVE  /\ used'[Pos(k)'] => Queued(k)' \/ (isr' = "repost" /\ k = 0)
             /\ Queued(k)' \/ (isr' = "repost" /\ k = 0) => used'[Pos(k)']
  <2>1. Pos(k)' = Pos(k) /\ Pos(k) \in Index
    BY <1>1, <1>4, PosFacts DEF Pos, Index
  <2>2. Queued(k)' <=> Queued(k) \/ k = Taken + n
    BY <1>2, <1>5, <1>6 DEF Queued, Index
  <2>3. CASE k = Taken + n
    BY <1>2, <1>4, <2>1, <2>2, <2>3, <1>1
  <2>4. CASE k # Taken + n
    <3>1. Pos(k) # hw
      BY <1>1, <1>2, <2>4, PosFacts
    <3>2. used'[Pos(k)'] = used[Pos(k)]
      BY <1>1, <1>4, <2>1, <3>1
    <3> QED
      BY <1>2, <1>4, <2>2, <2>4, <3>2 DEF OrderInv
  <2> QED
    BY <2>3, <2>4
<1>10. arrived' # <<>>
  BY <1>6, <1>2
<1>11. OrderInv'
  BY <1>1, <1>2, <1>4, <1>5, <1>6, <1>7, <1>8, <1>9, <1>10 DEF OrderInv
<1> QED
  BY <1>2, <1>3, <1>11

\* The callback is given the first frame of the queue.
LEMMA CopyOrder ==
  ASSUME Paced, IInv, OrderInv, RxCopy
  PROVE  OrderInv' /\ arrived # <<>> /\ arrived' = Tail(arrived)
<1> DEFINE n == Len(arrived)
<1>1. count = RING /\ isr = "copy" /\ isr' = "repost" /\ first \in Index /\ pkt = first
  BY DEF RxCopy, IInv, DriverTypeOK, PrimeInv, StockInv
<1>2. /\ arrived \in Seq(Buffers) /\ arrived # <<>> /\ n \in Nat /\ n > 0
      /\ n + InHand <= MaxBacklog /\ (filling => n + InHand < MaxBacklog)
      /\ hw = Pos(Taken + n) /\ MaxBacklog < RING
      /\ \A i \in 1 .. n : arrived[i] = Pos(Taken + i - 1)
  BY <1>1 DEF OrderInv, Paced
<1>3. Taken = 0 /\ InHand = 0 /\ Taken' = 1 /\ InHand' = 1
  BY <1>1 DEF Taken, InHand
<1>4. arrived[1] = pkt /\ \A i \in DOMAIN arrived : arrived[i] = pkt => i = 1
  <2>1. \A i \in 1 .. n : i - 1 \in Index /\ arrived[i] = Pos(i - 1)
    <3> TAKE i \in 1 .. n
    <3>1. i - 1 \in Index /\ Taken + i - 1 = i - 1
      BY <1>2, <1>3 DEF Index
    <3> QED
      BY <1>2, <3>1
  <2>2. Pos(0) = pkt /\ 0 \in Index
    BY <1>1, PosFacts DEF Index
  <2>3. DOMAIN arrived = 1 .. n
    BY <1>2
  <2>4. ASSUME NEW i \in 1 .. n, arrived[i] = pkt PROVE i = 1
    <3>1. Pos(i - 1) = Pos(0)
      BY <2>1, <2>2, <2>4
    <3>2. i - 1 = 0
      BY <1>1, <2>1, <2>2, <3>1, PosFacts
    <3> QED
      BY <3>2
  <2>5. arrived[1] = pkt
    <3>1. 1 \in 1 .. n /\ 1 - 1 = 0
      BY <1>2
    <3> QED
      BY <2>1, <2>2, <3>1
  <2> QED
    BY <2>3, <2>4, <2>5
<1>5. arrived' = Tail(arrived)
  BY <1>2, <1>4, WithoutFirst DEF RxCopy
<1>6. Len(arrived') = n - 1 /\ arrived' \in Seq(Buffers)
  BY <1>2, <1>5
<1>7. UNCHANGED <<count, used, hw, first, filling>>
  BY DEF RxCopy, inits, sw, ring, hwVars
<1>8. hw' = Pos(Taken + Len(arrived))'
  <2>1. Taken' + Len(arrived') = Taken + n
    BY <1>2, <1>3, <1>6
  <2> QED
    BY <1>2, <1>7, <2>1 DEF Pos
<1>9. \A i \in 1 .. Len(arrived') : arrived'[i] = Pos(Taken + i - 1)'
  <2> TAKE i \in 1 .. Len(arrived')
  <2>1. i + 1 \in 1 .. n /\ arrived'[i] = arrived[i + 1]
    BY <1>2, <1>5, <1>6
  <2>2. arrived[i + 1] = Pos(Taken + (i + 1) - 1)
    BY <1>2, <2>1
  <2>3. Taken' + i - 1 = Taken + (i + 1) - 1
    BY <1>3, <1>6
  <2> QED
    BY <1>7, <2>1, <2>2, <2>3 DEF Pos
<1>10. ASSUME NEW k \in Index
       PROVE  /\ used'[Pos(k)'] => Queued(k)' \/ (isr' = "repost" /\ k = 0)
              /\ Queued(k)' \/ (isr' = "repost" /\ k = 0) => used'[Pos(k)']
  <2>1. Pos(k)' = Pos(k)
    BY <1>7 DEF Pos
  <2>2. Queued(k)' \/ k = 0 <=> Queued(k)
    BY <1>2, <1>3, <1>6 DEF Queued, Index
  <2>3. used[Pos(k)] <=> Queued(k)
    BY <1>1 DEF OrderInv
  <2> QED
    BY <1>1, <1>7, <2>1, <2>2, <2>3
<1>11. /\ Len(arrived') + InHand' <= MaxBacklog
       /\ filling' => Len(arrived') + InHand' < MaxBacklog
  BY <1>2, <1>3, <1>6, <1>7
<1> HIDE DEF n
<1>12. OrderInv'
  BY <1>1, <1>6, <1>7, <1>8, <1>9, <1>10, <1>11 DEF OrderInv
<1> QED
  BY <1>2, <1>5, <1>12

\* The buffer is posted again: its descriptor is free.
LEMMA RepostOrder ==
  ASSUME Paced, IInv, IInv', OrderInv, RxRepost
  PROVE  OrderInv'
<1> DEFINE n == Len(arrived)
<1>1. /\ count = RING /\ isr = "repost" /\ isr' = "clear" /\ first \in Index
      /\ nextFree = first /\ nb = 1 /\ used \in [Index -> BOOLEAN]
  BY DEF RxRepost, IInv, DriverTypeOK, PrimeInv, StockInv
<1>2. /\ UNCHANGED <<count, arrived, hw, first, filling>>
      /\ used' = [used EXCEPT ![first] = FALSE]
  <2>1. UNCHANGED <<count, arrived, hw, first>> /\ used' = [used EXCEPT ![first] = FALSE]
    BY <1>1 DEF RxRepost, ReceivePkt, inits, ring, hwVars
  <2>2. filling' <=> filling
    BY <1>1 DEF RxRepost, ReceivePkt, hwVars
  <2>3. filling' \in BOOLEAN /\ filling \in BOOLEAN
    BY DEF IInv, DriverTypeOK
  <2> QED
    BY <2>1, <2>2, <2>3
<1>3. Taken = 1 /\ InHand = 1 /\ Taken' = 1 /\ InHand' = 0
  BY <1>1 DEF Taken, InHand
<1>4. n \in Nat /\ n + InHand <= MaxBacklog /\ (filling => n + InHand < MaxBacklog)
  BY <1>1 DEF OrderInv
<1>5. ASSUME NEW k \in Index
      PROVE  /\ used'[Pos(k)'] => Queued(k)' \/ (isr' = "repost" /\ k = 0)
             /\ Queued(k)' \/ (isr' = "repost" /\ k = 0) => used'[Pos(k)']
  <2>1. Pos(k)' = Pos(k) /\ Pos(k) \in Index
    BY <1>1, <1>2, PosFacts DEF Pos, Index
  <2>2. Queued(k)' <=> Queued(k)
    BY <1>2, <1>3 DEF Queued
  <2>3. CASE k = 0
    <3>1. Pos(k) = first /\ ~Queued(k)
      BY <1>1, <1>3, <2>3, PosFacts DEF Queued
    <3>2. ~used'[Pos(k)']
      BY <1>1, <1>2, <2>1, <3>1
    <3> QED
      BY <1>1, <2>2, <3>1, <3>2
  <2>4. CASE k # 0
    <3>1. Pos(k) # first
      BY <1>1, <2>4, PosFacts DEF Index
    <3>2. used'[Pos(k)'] = used[Pos(k)]
      BY <1>1, <1>2, <2>1, <3>1
    <3> QED
      BY <1>1, <2>2, <2>4, <3>2 DEF OrderInv
  <2> QED
    BY <2>3, <2>4
<1>6. /\ Len(arrived') + InHand' <= MaxBacklog
      /\ filling' => Len(arrived') + InHand' < MaxBacklog
  BY <1>2, <1>3, <1>4
<1>7. /\ hw' = Pos(Taken + Len(arrived))'
      /\ \A i \in 1 .. Len(arrived') : arrived'[i] = Pos(Taken + i - 1)'
  <2>1. hw = Pos(Taken + Len(arrived))
    BY <1>1 DEF OrderInv
  <2>2. \A i \in 1 .. Len(arrived) : arrived[i] = Pos(Taken + i - 1)
    BY <1>1 DEF OrderInv
  <2> QED
    BY <1>2, <1>3, <2>1, <2>2 DEF Pos
<1> HIDE DEF n
<1> QED
  BY <1>1, <1>2, <1>5, <1>6, <1>7 DEF OrderInv

\* The driver goes on to the next descriptor.
LEMMA ClearOrder ==
  ASSUME Paced, IInv, OrderInv, RxClear
  PROVE  OrderInv'
<1> DEFINE n == Len(arrived)
<1>1. /\ count = RING /\ isr = "clear" /\ isr' = "scan" /\ first \in Index
      /\ used \in [Index -> BOOLEAN]
  BY DEF RxClear, IInv, DriverTypeOK, PrimeInv
<1>2. /\ UNCHANGED <<count, arrived, hw, filling>> /\ first' = Next1(first)
      /\ used' = [used EXCEPT ![first] = FALSE]
  BY DEF RxClear, hwVars, inits
<1>3. Taken = 1 /\ InHand = 0 /\ Taken' = 0 /\ InHand' = 0
  BY <1>1 DEF Taken, InHand
<1>4. /\ n \in Nat /\ n + InHand <= MaxBacklog /\ (filling => n + InHand < MaxBacklog)
      /\ n \in Index
  BY <1>1, <1>3 DEF OrderInv, Paced, Index
<1>5. \A k \in Index : Pos(k)' = Pos(k + 1)
  BY <1>1, <1>2, PosNext
<1>6. ~used[first] /\ used' = used
  <2>1. Pos(0) = first /\ 0 \in Index
    BY <1>1, PosFacts DEF Index
  <2>2. ~Queued(0) /\ isr # "repost"
    BY <1>1, <1>3 DEF Queued
  <2>3. ~used[Pos(0)]
    BY <1>1, <2>1, <2>2 DEF OrderInv
  <2> QED
    BY <1>1, <1>2, <2>1, <2>3
<1>7. ASSUME NEW k \in Index
      PROVE  /\ used'[Pos(k)'] => Queued(k)' \/ (isr' = "repost" /\ k = 0)
             /\ Queued(k)' \/ (isr' = "repost" /\ k = 0) => used'[Pos(k)']
  <2>1. Pos(k)' = Pos(k + 1)
    BY <1>5
  <2>2. Queued(k)' <=> k < n
    BY <1>2, <1>3 DEF Queued, Index
  <2>3. CASE k = RING - 1
    <3>1. Pos(k + 1) = first
      BY <1>1, <2>3, PosFacts
    <3>2. ~(k < n)
      BY <1>4, <2>3 DEF Index
    <3> QED
      BY <1>1, <1>6, <2>1, <2>2, <3>1, <3>2
  <2>4. CASE k # RING - 1
    <3>1. k + 1 \in Index
      BY <2>4 DEF Index
    <3>2. Queued(k + 1) <=> k < n
      BY <1>3, <1>4 DEF Queued, Index
    <3>3. used[Pos(k + 1)] <=> Queued(k + 1)
      BY <1>1, <3>1 DEF OrderInv
    <3> QED
      BY <1>1, <1>6, <2>1, <2>2, <3>2, <3>3
  <2> QED
    BY <2>3, <2>4
<1>8. hw' = Pos(Taken + Len(arrived))'
  <2>1. hw = Pos(n + 1)
    BY <1>1, <1>3, <1>4 DEF OrderInv
  <2>2. Pos(n)' = Pos(n + 1)
    <3>1. first' = IF first = RING - 1 THEN 0 ELSE first + 1
      BY <1>1, <1>2, Next1Index
    <3> QED
      BY <1>1, <1>2, <1>4, <3>1 DEF Pos, Index
  <2>3. Taken' + Len(arrived') = n
    BY <1>2, <1>3, <1>4
  <2> QED
    BY <1>2, <2>1, <2>2, <2>3 DEF Pos
<1>9. \A i \in 1 .. Len(arrived') : arrived'[i] = Pos(Taken + i - 1)'
  <2> TAKE i \in 1 .. Len(arrived')
  <2>1. i \in 1 .. n /\ i - 1 \in Index
    BY <1>2, <1>4 DEF Index
  <2>2. arrived[i] = Pos(Taken + i - 1)
    BY <1>1, <2>1 DEF OrderInv
  <2>3. Taken + i - 1 = (i - 1) + 1 /\ Taken' + i - 1 = i - 1
    BY <1>3, <2>1
  <2>4. Pos(i - 1)' = Pos((i - 1) + 1)
    BY <1>5, <2>1
  <2> QED
    BY <1>2, <2>2, <2>3, <2>4 DEF Pos
<1>10. /\ Len(arrived') + InHand' <= MaxBacklog
       /\ filling' => Len(arrived') + InHand' < MaxBacklog
  BY <1>2, <1>3, <1>4
<1> HIDE DEF n
<1> QED
  BY <1>1, <1>2, <1>7, <1>8, <1>9, <1>10 DEF OrderInv

LEMMA OrderStep == Paced /\ IInv /\ IInv' /\ QuietInv /\ OrderInv /\ [Next]_vars => OrderInv'
<1> SUFFICES ASSUME Paced, IInv, IInv', QuietInv, OrderInv, [Next]_vars PROVE OrderInv'
  OBVIOUS
<1> USE DEF inits, ring, sw, isrs, hwVars, swVars
<1>1. CASE Prime
  BY <1>1, PrimeOrder
<1>2. CASE HwFetch
  <2>1. count = RING
    BY <1>2 DEF HwFetch, IInv, DriverTypeOK, PrimeInv
  <2>2. Len(arrived) + InHand <= Cardinality({i \in Index : used[i]})
    BY <2>1, UsedCount DEF Paced
  <2>3. Cardinality({i \in Index : used[i]}) < MaxBacklog
    BY <1>2 DEF HwFetch
  <2>4. Len(arrived) + InHand < MaxBacklog
    <3>1. IsFiniteSet(Index)
      BY FS_Interval DEF Index
    <3>2. IsFiniteSet({i \in Index : used[i]})
      BY <3>1, FS_Subset
    <3>3. Cardinality({i \in Index : used[i]}) \in Nat
      BY <3>2, FS_CardinalityType
    <3>4. Len(arrived) + InHand \in Nat
      BY DEF OrderInv, InHand
    <3> QED
      BY <2>2, <2>3, <3>3, <3>4
  <2>5. UNCHANGED <<arrived, count, used, hw, first, isr>>
    BY <1>2 DEF HwFetch
  <2> QED
    BY <2>4, <2>5, OrderKept DEF Taken, InHand
<1>3. CASE HwNoBuffer
  <2>1. UNCHANGED <<arrived, count, used, hw, first, isr, filling>>
    BY <1>3 DEF HwNoBuffer
  <2> QED
    BY <2>1, OrderKept DEF Taken, InHand
<1>4. CASE HwStore
  BY <1>4, StoreOrder
<1>5. CASE HwOverrun \/ HwRespNotOk
  <2>1. UNCHANGED <<arrived, count, used, hw, first, isr>> /\ ~filling'
    BY <1>5 DEF HwOverrun, HwRespNotOk
  <2> QED
    BY <2>1, OrderKept DEF Taken, InHand
<1>6. CASE IsrEnter \/ IsrAck \/ IsrTally \/ IsrRestart
  <2>1. UNCHANGED <<arrived, count, used, hw, first, filling>>
    BY <1>6 DEF IsrEnter, IsrAck, IsrTally, IsrRestart, QuietInv
  <2>2. /\ isr \in {"off", "ack", "tally", "restart"}
        /\ isr' \in {"off", "ack", "scan", "restart"}
    BY <1>6 DEF IsrEnter, IsrAck, IsrTally, IsrRestart, NextCause
  <2>3. Taken' = Taken /\ InHand' = InHand
    BY <2>2 DEF Taken, InHand
  <2> QED
    BY <2>1, <2>2, <2>3, OrderKept
<1>7. CASE RxScan
  <2>1. /\ UNCHANGED <<arrived, count, used, hw, first, filling>>
        /\ isr = "scan" /\ isr' \in {"copy", "tally"}
        /\ isr' = "copy" => used[first]
    BY <1>7 DEF RxScan
  <2>2. Taken = 0 /\ Taken' = 0 /\ InHand' = InHand
    BY <2>1 DEF Taken, InHand
  <2>3. ASSUME isr' = "copy", count = RING PROVE arrived # <<>>
    <3>1. first \in Index
      BY DEF IInv, DriverTypeOK
    <3>2. Pos(0) = first /\ 0 \in Index
      BY <3>1, PosFacts DEF Index
    <3>3. Queued(0)
      BY <2>1, <2>3, <3>2 DEF OrderInv
    <3> QED
      BY <2>2, <3>3 DEF Queued
  <2> QED
    BY <2>1, <2>2, <2>3, OrderKept
<1>8. CASE RxCopy
  BY <1>8, CopyOrder
<1>9. CASE RxRepost
  BY <1>9, RepostOrder
<1>10. CASE RxClear
  BY <1>10, ClearOrder
<1>11. CASE UNCHANGED vars
  <2>1. UNCHANGED <<arrived, count, used, hw, first, isr, filling>>
    BY <1>11 DEF vars
  <2> QED
    BY <2>1, OrderKept DEF Taken, InHand
<1> QED
  BY <1>1, <1>2, <1>3, <1>4, <1>5, <1>6, <1>7, <1>8, <1>9, <1>10, <1>11 DEF Next, IsrStep, HwStep

\* Every step hands up the oldest frame, adds one behind the others, or is none
\* of the queue's.
LEMMA StepRefines ==
  Paced /\ IInv /\ QuietInv /\ OrderInv /\ [Next]_vars => [Fifo!Next]_arrived
<1> SUFFICES ASSUME Paced, IInv, QuietInv, OrderInv, [Next]_vars
             PROVE  Fifo!Next \/ UNCHANGED arrived
  OBVIOUS
<1>1. CASE HwStore
  <2>1. arrived' = Append(arrived, buf[hw])
    BY <1>1, StoreOrder
  <2>2. buf[hw] \in Buffers /\ \A i \in DOMAIN arrived : arrived[i] # buf[hw]
    BY <1>1, StoreFacts DEF HwStore
  <2>3. Fifo!Arrive(buf[hw])
    BY <2>1, <2>2 DEF Fifo!Arrive, Fifo!Queued
  <2> QED
    BY <2>2, <2>3 DEF Fifo!Next
<1>2. CASE RxCopy
  <2>1. Fifo!HandUp
    BY <1>2, CopyOrder DEF Fifo!HandUp
  <2> QED
    BY <2>1 DEF Fifo!Next
<1>3. CASE Prime \/ HwFetch \/ HwNoBuffer \/ HwOverrun \/ HwRespNotOk
  BY <1>3 DEF Prime, HwFetch, HwNoBuffer, HwOverrun, HwRespNotOk
<1>4. CASE IsrEnter \/ IsrAck \/ RxScan \/ RxRepost \/ RxClear \/ IsrTally \/ IsrRestart
  BY <1>4 DEF IsrEnter, IsrAck, RxScan, RxRepost, RxClear, IsrTally, IsrRestart
<1>5. CASE UNCHANGED vars
  BY <1>5 DEF vars
<1> QED
  BY <1>1, <1>2, <1>3, <1>4, <1>5 DEF Next, IsrStep, HwStep

\* While the driver keeps up with the traffic, the frames reach the stack once
\* each, in the order they were received, bus errors or not.
THEOREM ReceivesInOrder ==
  ASSUME Paced
  PROVE  Spec => ImplementsRxFifo
<1>1. Init => Fifo!Init
  BY DEF Init, Fifo!Init
<1>2. Spec => [](QuietInv /\ OrderInv)
  <2>1. QuietInv /\ OrderInv /\ IInv /\ IInv' /\ [Next]_vars => (QuietInv /\ OrderInv)'
    BY QuietStep, OrderStep
  <2> QED
    BY <2>1, InitOrder, Inductive, PTL DEF Spec
<1>3. QuietInv /\ OrderInv /\ IInv /\ [Next]_vars => [Fifo!Next]_arrived
  BY StepRefines
<1>4. Spec => Fifo!Spec
  BY <1>1, <1>2, <1>3, Inductive, PTL DEF Spec, Fifo!Spec
<1> QED
  BY <1>4 DEF ImplementsRxFifo
=============================================================================
