---------------------------- MODULE KernelProps ----------------------------
(***************************************************************************)
(* What must hold of the kernel modelled in Kernel.                        *)
(***************************************************************************)
EXTENDS Kernel

\* The task's queue call is under way and it is not in the queue's list.
Trying(t, kind) == call[t] = kind /\ event[t] # kind

(***************************************************************************)
(* No wake-up is lost: while a receiver waits and the queue, not locked,   *)
(* has messages, a receiver that has been woken is on its way to them; and *)
(* the same for senders and room.  The lock counts, the second look at the *)
(* queue after it was locked, and a time limit that runs out just as the   *)
(* message comes all bear on it.                                           *)
(***************************************************************************)
NoLostWakeup ==
  /\ txLock = queueUNLOCKED /\ count > 0 /\ Awaiting("recv") # {}
       => \E t \in Tasks : Trying(t, "recv")
  /\ rxLock = queueUNLOCKED /\ count < QLen /\ Awaiting("send") # {}
       => \E t \in Tasks : Trying(t, "send")

(***************************************************************************)
(* A task blocked without a time limit is in the list of an event that can *)
(* wake it, and one that runs is in none: xTaskIncrementTick(),            *)
(* xTaskRemoveFromEventList() and xTaskResumeAll() take it out of both     *)
(* lists or of neither.                                                    *)
(***************************************************************************)
NoneStranded ==
  \A t \in Tasks :
    /\ list[t] = "suspended" /\ call[t] # "stop" => event[t] # "none"
    /\ event[t] # "none" => list[t] # "ready" /\ call[t] \in {"send", "recv"}

(***************************************************************************)
(* The blocked sleep exactly as long as they asked: the value a task's     *)
(* list item was given, read against a counter that wraps under it, and    *)
(* over any number of calls and retries, is the ticks its time limit has   *)
(* left (unless it was kept from the processor for a turn of the counter). *)
(* In particular the delayed list is empty when the lists are exchanged,   *)
(* as taskSWITCH_DELAYED_LISTS() asserts.                                  *)
(***************************************************************************)
SleepExact ==
  \A t \in Tasks : elapsed[t] < Starved =>
    LET left == asked[t] - elapsed[t] IN
    /\ list[t] = "delayed"  => left > 0 /\ wake[t] = tick + left
    /\ list[t] = "overflow" => left > 0 /\ wake[t] + TickRange = tick + left

(***************************************************************************)
(* xTaskIncrementTick() looks at the delayed list only from                *)
(* xNextTaskUnblockTime on: no task is due earlier.                        *)
(***************************************************************************)
NextUnblockInTime ==
  \A t \in Tasks : list[t] = "delayed" => nextUnblock <= wake[t]

(***************************************************************************)
(* A call reports a time-out only when its limit is over, and goes to      *)
(* sleep again only when it is not, however often it was woken for nothing *)
(* (unless it was kept from the processor for a turn of the counter).      *)
(***************************************************************************)
TimeOutHonest ==
  \A t \in Tasks : elapsed[t] < Starved =>
    /\ why[t] = "expired" => elapsed[t] >= asked[t]
    /\ pc[t] = "place" /\ ticks[t] # portMAX_DELAY => elapsed[t] < asked[t]

(***************************************************************************)
(* A ready task of a higher priority is never forgotten: it runs, or a     *)
(* yield is pending.  The MAC handler wakes tasks and does not switch.     *)
(***************************************************************************)
YieldRemembered ==
  ~schedSuspended =>
    \A t \in Tasks : list[t] = "ready" => Prio[t] <= Prio[current] \/ yieldPending

(***************************************************************************)
(* A task of the highest priority that is ready gets the processor, though *)
(* an interrupt that wakes it leaves the switch to the next tick.          *)
(***************************************************************************)
WokenRuns ==
  \A t \in FirstOf(Tasks) : list[t] = "ready" ~> current = t \/ list[t] # "ready"

(***************************************************************************)
(* A queue of the kernel is a Mailbox.                                     *)
(***************************************************************************)
Box == INSTANCE Mailbox WITH
  Clients <- Tasks,
  call <- [t \in Tasks |-> IF call[t] \in {"send", "recv"} THEN call[t] ELSE "none"],
  limited <- {t \in Tasks : call[t] \in {"send", "recv"} /\ asked[t] # portMAX_DELAY}

ImplementsMailbox == Box!Spec
=============================================================================
