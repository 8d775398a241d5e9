------------------------------- MODULE UartTx -------------------------------
(***************************************************************************)
(* UART0 of pse-blinky, written by every hart through                      *)
(* safe_MSS_UART0_polled_tx_string() (common.c): a spin lock (mss_mutex.S) *)
(* around MSS_UART_polled_tx_string() (mss_uart.c), which waits for the    *)
(* transmit FIFO to be empty and then writes up to TX_FIFO_SIZE bytes      *)
(* without looking again.  The GPIO interrupt handlers of hart 0 (e51.c)   *)
(* call the inner function, without the lock.                              *)
(*                                                                         *)
(* Each hart moves at its own speed, byte by byte; the handler stops the   *)
(* hart it runs on, and the UART sends bytes all the while.                *)
(***************************************************************************)
EXTENDS Naturals

CONSTANTS
  Harts,         \* the harts that print
  Isr,           \* the GPIO interrupt handler, another printing context
  IsrHart,       \* the hart it interrupts, e51
  MaxGpio,       \* GPIO interrupts in a run; 0 means nobody touches the inputs
  TX_FIFO_SIZE,  \* bytes the transmit FIFO takes
  MaxLen         \* longest string printed

ASSUME IsrAssumption  == Isr \notin Harts
ASSUME HartAssumption == IsrHart \in Harts
ASSUME GpioAssumption == MaxGpio \in Nat
ASSUME FifoAssumption == TX_FIFO_SIZE \in Nat \ {0}
ASSUME LenAssumption  == MaxLen \in Nat \ {0}

Contexts == Harts \cup {Isr}

VARIABLES
  pc,         \* where each context is
  left,       \* bytes of its string up to the NUL, from char_idx on
  fill_size,  \* bytes it has written since it saw THRE
  uart_lock,  \* the mutex word, 0 or 1
  fifo,       \* bytes in the transmit FIFO
  lost,       \* a byte was written to THR with the FIFO full
  gpio        \* history: GPIO interrupts taken so far

vars == <<pc, left, fill_size, uart_lock, fifo, lost, gpio>>

Labels == {"idle", "take", "poll", "fill", "release"}

TypeOK ==
  /\ pc \in [Contexts -> Labels]
  /\ left \in [Contexts -> 0 .. MaxLen]
  /\ fill_size \in [Contexts -> 0 .. TX_FIFO_SIZE]
  /\ uart_lock \in {0, 1}
  /\ fifo \in 0 .. TX_FIFO_SIZE
  /\ lost \in BOOLEAN
  /\ gpio \in 0 .. MaxGpio

\* mss_init_mutex() and MSS_UART_init() have run.
Init ==
  /\ pc = [c \in Contexts |-> "idle"]
  /\ left = [c \in Contexts |-> 0]
  /\ fill_size = [c \in Contexts |-> 0]
  /\ uart_lock = 0
  /\ fifo = 0
  /\ lost = FALSE
  /\ gpio = 0

-----------------------------------------------------------------------------
\* A hart stands still while the handler runs on it.
Runs(c) == c = IsrHart => pc[Isr] = "idle"

Goto(c, from, to) == /\ Runs(c)
                     /\ pc[c] = from
                     /\ pc' = [pc EXCEPT ![c] = to]

\* safe_MSS_UART0_polled_tx_string() of a string of n bytes: no caller has an
\* empty one.
SafeTxString(h, n) ==
  /\ Goto(h, "idle", "take")
  /\ left' = [left EXCEPT ![h] = n]
  /\ UNCHANGED <<fill_size, uart_lock, fifo, lost, gpio>>

\* A GPIO interrupt; its handler goes straight to the inner function.
GpioIrq(n) ==
  /\ gpio < MaxGpio
  /\ gpio' = gpio + 1
  /\ Goto(Isr, "idle", "poll")
  /\ left' = [left EXCEPT ![Isr] = n]
  /\ UNCHANGED <<fill_size, uart_lock, fifo, lost>>

\* MUTANT: the lock is read and then written, not swapped.
TakeMutexUnswapped(h) ==
  /\ Goto(h, "take", "poll")
  /\ uart_lock' = 1
  /\ UNCHANGED <<left, fill_size, fifo, lost, gpio>>

\* amoswap.w t1, 1 of mss_take_mutex() that reads 0; the others retry.
TakeMutex(h) ==
  /\ Goto(h, "take", "poll")
  /\ uart_lock = 0
  /\ uart_lock' = 1
  /\ UNCHANGED <<left, fill_size, fifo, lost, gpio>>

\* MUTANT: it waits for room for one byte, not for an empty FIFO.
PollThreAnyRoom(c) ==
  /\ Goto(c, "poll", "fill")
  /\ fifo < TX_FIFO_SIZE
  /\ fill_size' = [fill_size EXCEPT ![c] = 0]
  /\ UNCHANGED <<left, uart_lock, fifo, lost, gpio>>

\* The LSR read that shows THRE.
PollThre(c) ==
  /\ Goto(c, "poll", "fill")
  /\ fifo = 0
  /\ fill_size' = [fill_size EXCEPT ![c] = 0]
  /\ UNCHANGED <<left, uart_lock, fifo, lost, gpio>>

\* Where MSS_UART_polled_tx_string() goes once the string is written.
AfterString(c) == IF c = Isr THEN "idle" ELSE "release"

\* One byte to THR, which a full FIFO drops, and the tests of both loops.
WriteThr(c) ==
  LET rest == left[c] - 1
      done == fill_size[c] + 1
  IN  /\ Goto(c, "fill", IF rest = 0 THEN AfterString(c)
                         ELSE IF done = TX_FIFO_SIZE THEN "poll" ELSE "fill")
      /\ left' = [left EXCEPT ![c] = rest]
      /\ fill_size' = [fill_size EXCEPT ![c] = done]
      /\ fifo' = IF fifo < TX_FIFO_SIZE THEN fifo + 1 ELSE fifo
      /\ lost' = (lost \/ fifo = TX_FIFO_SIZE)
      /\ UNCHANGED <<uart_lock, gpio>>

\* MUTANT: the store that releases the lock is missing.
ReleaseMutexNot(h) ==
  /\ Goto(h, "release", "idle")
  /\ UNCHANGED <<left, fill_size, uart_lock, fifo, lost, gpio>>

\* amoswap.w x0, x0
ReleaseMutex(h) ==
  /\ Goto(h, "release", "idle")
  /\ uart_lock' = 0
  /\ UNCHANGED <<left, fill_size, fifo, lost, gpio>>

\* The UART sends a byte.
HwSend ==
  /\ fifo > 0
  /\ fifo' = fifo - 1
  /\ UNCHANGED <<pc, left, fill_size, uart_lock, lost, gpio>>

TxString(c) == PollThre(c) \/ WriteThr(c)

HartStep(h) == TakeMutex(h) \/ TxString(h) \/ ReleaseMutex(h)

Next == \/ \E h \in Harts, n \in 1 .. MaxLen : SafeTxString(h, n)
        \/ \E n \in 1 .. MaxLen : GpioIrq(n)
        \/ \E h \in Harts : HartStep(h)
        \/ TxString(Isr)
        \/ HwSend

Spec == Init /\ [][Next]_vars

\* Harts and UART keep going.  Nothing makes the spin lock fair: its winner
\* is any of the harts that try.
FairSpec == /\ Spec
            /\ WF_vars(HwSend)
            /\ WF_vars(\E h \in Harts : TakeMutex(h))
            /\ \A h \in Harts : WF_vars(TxString(h)) /\ WF_vars(ReleaseMutex(h))
            /\ WF_vars(TxString(Isr))

-----------------------------------------------------------------------------
Printing(c) == pc[c] \in {"poll", "fill", "release"}

(***************************************************************************)
(* Strings of different harts are never mixed: between the first and the   *)
(* last byte of one, no other hart writes.                                 *)
(***************************************************************************)
OneStringAtATime ==
  \A g, h \in Harts : Printing(g) /\ Printing(h) => g = h

(***************************************************************************)
(* polled_tx_string() looks at the FIFO once and writes TX_FIFO_SIZE bytes *)
(* on the strength of it, so no byte is lost only if every other writer is *)
(* kept out from that look to the last of those bytes.  The mutex does     *)
(* that, however long the strings: only a GPIO interrupt can make it lose. *)
(***************************************************************************)
LossNeedsGpio == lost => gpio > 0

(***************************************************************************)
(* A string that has been begun is finished and the mutex released, so a   *)
(* spinning hart gets a chance, unless GPIO interrupts come for ever.      *)
(***************************************************************************)
LockComesBack == uart_lock = 1 ~> uart_lock = 0
=============================================================================
