---------------------------- MODULE UartTxProofs ----------------------------
(***************************************************************************)
(* Safety of UART0, for any number of harts, any FIFO and any strings.     *)
(***************************************************************************)
EXTENDS UartTx, TLAPS

(***************************************************************************)
(* The inductive invariant: the mutex word says whether a hart is printing *)
(* and at most one is; and, as long as the handler keeps out, the FIFO     *)
(* holds no more than what the printing hart has counted since it was      *)
(* empty, so the next byte has room.                                       *)
(***************************************************************************)
LockInv ==
  /\ OneStringAtATime
  /\ uart_lock = 0 => \A h \in Harts : ~Printing(h)

StringInv ==
  \A c \in Contexts :
    /\ pc[c] \in {"take", "poll", "fill"} => left[c] > 0
    /\ pc[c] = "fill" => fill_size[c] < TX_FIFO_SIZE

QuietInv ==
  gpio = 0 =>
    /\ pc[Isr] = "idle"
    /\ ~lost
    /\ \A h \in Harts : pc[h] = "fill" => fifo <= fill_size[h]

IInv == TypeOK /\ LockInv /\ StringInv /\ QuietInv

USE IsrAssumption, HartAssumption, GpioAssumption, FifoAssumption, LenAssumption

LEMMA InitIInv == Init => IInv
<1> SUFFICES ASSUME Init PROVE IInv
  OBVIOUS
<1>1. TypeOK
  <2>1. pc \in [Contexts -> Labels] /\ left \in [Contexts -> 0 .. MaxLen]
    BY DEF Init, Labels
  <2>2. fill_size \in [Contexts -> 0 .. TX_FIFO_SIZE] /\ fifo \in 0 .. TX_FIFO_SIZE
    BY DEF Init
  <2>3. uart_lock \in {0, 1} /\ gpio \in 0 .. MaxGpio
    BY DEF Init
  <2>4. lost \in BOOLEAN
    BY DEF Init
  <2> QED
    BY <2>1, <2>2, <2>3, <2>4 DEF TypeOK
<1>2. LockInv /\ StringInv /\ QuietInv
  BY DEF Init, LockInv, OneStringAtATime, Printing, StringInv, QuietInv,
         Contexts
<1> QED
  BY <1>1, <1>2 DEF IInv

LEMMA NextIInv == IInv /\ [Next]_vars => IInv'
<1> SUFFICES ASSUME IInv, [Next]_vars PROVE IInv'
  OBVIOUS
<1> USE DEF IInv, TypeOK, LockInv, OneStringAtATime, Printing, StringInv,
            QuietInv, Contexts, Labels
<1>1. ASSUME NEW h \in Harts, NEW n \in 1 .. MaxLen, SafeTxString(h, n) PROVE IInv'
  BY <1>1 DEF SafeTxString, Goto
<1>2. ASSUME NEW n \in 1 .. MaxLen, GpioIrq(n) PROVE IInv'
  BY <1>2 DEF GpioIrq, Goto
<1>3. ASSUME NEW h \in Harts, TakeMutex(h) PROVE IInv'
  BY <1>3 DEF TakeMutex, Goto
<1>4. ASSUME NEW c \in Contexts, PollThre(c) PROVE IInv'
  BY <1>4 DEF PollThre, Goto
<1>5. ASSUME NEW c \in Contexts, WriteThr(c) PROVE IInv'
  <2> DEFINE rest == left[c] - 1
             done == fill_size[c] + 1
             to   == IF rest = 0 THEN AfterString(c)
                     ELSE IF done = TX_FIFO_SIZE THEN "poll" ELSE "fill"
  <2>1. /\ pc[c] = "fill"
        /\ pc' = [pc EXCEPT ![c] = to]
        /\ left' = [left EXCEPT ![c] = rest]
        /\ fill_size' = [fill_size EXCEPT ![c] = done]
        /\ uart_lock' = uart_lock
    BY <1>5 DEF WriteThr, Goto
  <2>2. rest \in 0 .. MaxLen /\ done \in 1 .. TX_FIFO_SIZE
    BY <2>1
  <2>3. /\ rest = 0 => to = AfterString(c)
        /\ rest > 0 /\ done = TX_FIFO_SIZE => to = "poll"
        /\ rest > 0 /\ done # TX_FIFO_SIZE => to = "fill"
    BY <2>2
  <2>4. to \in Labels /\ (c \in Harts => to \in {"release", "poll", "fill"})
    BY <2>2, <2>3 DEF AfterString
  <2>5. /\ gpio' = gpio
        /\ fifo' = IF fifo < TX_FIFO_SIZE THEN fifo + 1 ELSE fifo
        /\ lost' = (lost \/ fifo = TX_FIFO_SIZE)
    BY <1>5 DEF WriteThr
  <2> HIDE DEF rest, done, to
  <2>6. TypeOK'
    BY <2>1, <2>2, <2>4, <2>5
  <2>7. LockInv'
    BY <2>1, <2>4
  <2>8. StringInv'
    <3> SUFFICES ASSUME NEW d \in Contexts
                 PROVE  /\ pc'[d] \in {"take", "poll", "fill"} => left'[d] > 0
                        /\ pc'[d] = "fill" => fill_size'[d] < TX_FIFO_SIZE
      BY DEF StringInv
    <3>1. CASE d # c
      BY <3>1, <2>1
    <3>2. CASE d = c
      BY <3>2, <2>1, <2>2, <2>3 DEF AfterString
    <3> QED
      BY <3>1, <3>2
  <2>9. QuietInv'
    <3> SUFFICES ASSUME gpio = 0 PROVE QuietInv'
      BY <2>5 DEF QuietInv
    <3>1. c \in Harts /\ c # Isr
      BY <2>1
    <3>2. fifo <= fill_size[c] /\ fill_size[c] < TX_FIFO_SIZE
      BY <2>1, <3>1
    <3>3. fifo' = fifo + 1 /\ lost' = lost
      BY <2>5, <3>2
    <3>4. fifo' <= done
      BY <3>2, <3>3 DEF done
    <3>5. \A h \in Harts : pc'[h] = "fill" => h = c
      BY <2>1, <3>1
    <3> QED
      BY <2>1, <2>2, <3>1, <3>3, <3>4, <3>5
  <2> QED
    BY <2>6, <2>7, <2>8, <2>9
<1>6. ASSUME NEW h \in Harts, ReleaseMutex(h) PROVE IInv'
  BY <1>6 DEF ReleaseMutex, Goto
<1>7. CASE HwSend
  BY <1>7 DEF HwSend
<1>8. CASE UNCHANGED vars
  BY <1>8 DEF vars
<1> QED
  BY <1>1, <1>2, <1>3, <1>4, <1>5, <1>6, <1>7, <1>8
  DEF Next, HartStep, TxString

\* The invariant holds in every state the harts and the handler reach.
THEOREM Inductive == Spec => []IInv
<1>1. Init => IInv
  BY InitIInv
<1>2. IInv /\ [Next]_vars => IInv'
  BY NextIInv
<1> QED
  BY <1>1, <1>2, PTL DEF Spec

\* The state keeps its types: in particular no more than TX_FIFO_SIZE bytes are
\* ever in the FIFO.
THEOREM TypeCorrect == Spec => []TypeOK
<1>1. IInv => TypeOK
  BY DEF IInv
<1> QED
  BY <1>1, Inductive, PTL

\* Strings of two harts are never mixed, GPIO interrupts or not.
THEOREM StringsApart == Spec => []OneStringAtATime
<1>1. IInv => OneStringAtATime
  BY DEF IInv, LockInv
<1> QED
  BY <1>1, Inductive, PTL

\* Without a GPIO interrupt the UART drops nothing, whatever is printed.
THEOREM NoByteLost == Spec => []LossNeedsGpio
<1>1. IInv => LossNeedsGpio
  BY DEF IInv, TypeOK, QuietInv, LossNeedsGpio
<1> QED
  BY <1>1, Inductive, PTL
=============================================================================
