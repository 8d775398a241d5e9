------------------------------- MODULE Kernel -------------------------------
(***************************************************************************)
(* The part of FreeRTOS the demo stands on: tasks that block on a queue    *)
(* with a time limit (queue.c: xQueueGenericSend, xQueueGenericReceive and *)
(* the calls for interrupts), the scheduler that wakes them (tasks.c), and *)
(* a tick counter that wraps.                                              *)
(*                                                                         *)
(* One action is one critical section, one step of a task between two      *)
(* critical sections, or one interrupt; interrupts come between any two    *)
(* steps of the running task.  Messages are counted, not told apart.       *)
(***************************************************************************)
EXTENDS Integers, FiniteSets

CONSTANTS
  Tasks,       \* all tasks, the idle task among them
  Idle,        \* the idle task, which makes no call
  Prio,        \* uxPriority of each task
  Calls,       \* the calls each task makes: "send", "recv", "delay", "stop", "resume"
  Waits,       \* the time limits each gives
  QLen,        \* uxLength
  TickRange,   \* TickType_t counts modulo this (2^32 in the code)
  MaxPended,   \* bound: ticks while the scheduler is suspended
  MaxLock      \* bound: calls from interrupts while the queue is locked

portMAX_DELAY == TickRange - 1

ASSUME TaskAssumption == IsFiniteSet(Tasks) /\ Idle \in Tasks
ASSUME PrioAssumption == /\ Prio \in [Tasks -> Nat]
                         /\ \A t \in Tasks : Prio[t] >= Prio[Idle]
ASSUME CallAssumption ==
  /\ Calls \in [Tasks -> SUBSET {"send", "recv", "delay", "stop", "resume"}]
  /\ Calls[Idle] = {}
ASSUME RangeAssumption == TickRange \in Nat /\ TickRange > 1
ASSUME WaitAssumption  == Waits \in [Tasks -> SUBSET (0 .. portMAX_DELAY)]
ASSUME SizeAssumption  == /\ QLen \in Nat \ {0}
                          /\ MaxPended \in Nat /\ MaxLock \in Nat

queueUNLOCKED == -1
queueLOCKED_UNMODIFIED == 0

VARIABLES
  current,         \* pxCurrentTCB
  list,            \* the list each task's xStateListItem is in
  wake,            \* and its value there: the tick to wake at
  event,           \* the list its xEventListItem is in
  tick,            \* xTickCount
  nextUnblock,     \* xNextTaskUnblockTime
  pendedTicks,     \* uxPendedTicks
  schedSuspended,  \* uxSchedulerSuspended
  yieldPending,    \* xYieldPending
  count,           \* uxMessagesWaiting
  txLock, rxLock,  \* cTxLock, cRxLock
  pc,              \* where each task is
  call,            \* the call it is in
  ticks,           \* xTicksToWait
  timed,           \* xEntryTimeSet
  timeOut,         \* xTimeOut: when entered, and has the counter wrapped since
  why,             \* why it unlocks the queue: to block, to retry, or it expired
  asked,           \* history: the time limit of the call
  elapsed          \* history: ticks counted since the call's clock started

queueVars == <<count, txLock, rxLock>>
listVars  == <<list, wake, event>>
tickVars  == <<tick, nextUnblock>>
callVars  == <<call, ticks, timed, timeOut, why, asked, elapsed>>
vars == <<current, listVars, tickVars, pendedTicks, schedSuspended,
          yieldPending, queueVars, pc, callVars>>

NoTimeOut == [time |-> 0, wrapped |-> FALSE]

\* Sums and differences of tick counts, in the width of TickType_t.
Plus(a, b)  == IF a + b >= TickRange THEN a + b - TickRange ELSE a + b
Minus(a, b) == IF a >= b THEN a - b ELSE a + TickRange - b

\* A clock that has run this long has been kept from the processor for more
\* than a turn of the counter (49 days); the history is not told further.
Starved == TickRange

TypeOK ==
  /\ current \in Tasks
  /\ list \in [Tasks -> {"ready", "delayed", "overflow", "suspended"}]
  /\ wake \in [Tasks -> 0 .. portMAX_DELAY]
  /\ event \in [Tasks -> {"none", "send", "recv", "pending"}]
  /\ tick \in 0 .. portMAX_DELAY /\ nextUnblock \in 0 .. portMAX_DELAY
  /\ pendedTicks \in 0 .. MaxPended
  /\ schedSuspended \in BOOLEAN /\ yieldPending \in BOOLEAN
  /\ count \in 0 .. QLen
  /\ txLock \in queueUNLOCKED .. MaxLock /\ rxLock \in queueUNLOCKED .. MaxLock
  /\ pc \in [Tasks -> {"app", "try", "suspend", "lock", "check", "test", "place",
                       "unlockTx", "unlockRx", "resume", "unwind", "yield",
                       "woken", "verdict", "delay", "reset"}]
  /\ call \in [Tasks -> {"none", "send", "recv", "delay", "stop"}]
  /\ ticks \in [Tasks -> 0 .. portMAX_DELAY]
  /\ timed \in [Tasks -> BOOLEAN]
  /\ timeOut \in [Tasks -> [time : 0 .. portMAX_DELAY, wrapped : BOOLEAN]]
  /\ why \in [Tasks -> {"none", "block", "retry", "expired"}]
  /\ asked \in [Tasks -> 0 .. portMAX_DELAY]
  /\ elapsed \in [Tasks -> 0 .. Starved]

-----------------------------------------------------------------------------
(* Lists.                                                                  *)

\* Event and ready lists are in order of priority; among equals any may come
\* first, which covers the round robin.
FirstOf(S) == {u \in S : \A v \in S : Prio[u] >= Prio[v]}

Awaiting(q) == {t \in Tasks : event[t] = q}

\* The value of the first item of the delayed list, were it S.
FirstWake(S) ==
  IF S = {} THEN portMAX_DELAY
  ELSE CHOOSE w \in {wake[t] : t \in S} : \A t \in S : w <= wake[t]

\* prvAddTaskToReadyList() for each of S, the others being in lists l.
MakeReady(S, l) ==
  /\ list' = [t \in Tasks |-> IF t \in S THEN "ready" ELSE l[t]]
  /\ wake' = [t \in Tasks |-> IF t \in S THEN 0 ELSE wake[t]]

\* vTaskSwitchContext(), the scheduler not being suspended.
SwitchContext ==
  /\ current' \in FirstOf({t \in Tasks : list'[t] = "ready"})
  /\ yieldPending' = FALSE

\* xTaskRemoveFromEventList(): u to the ready list, or, while that may not be
\* touched, to the pending one.
Unblock(u) ==
  IF schedSuspended
  THEN event' = [event EXCEPT ![u] = "pending"] /\ UNCHANGED <<list, wake>>
  ELSE event' = [event EXCEPT ![u] = "none"] /\ MakeReady({u}, list)

\* An interrupt or prvUnlockQueue() wakes a waiter: the switch is left pending.
WakeLater(q) ==
  IF Awaiting(q) = {} THEN UNCHANGED <<listVars, yieldPending>>
  ELSE \E u \in FirstOf(Awaiting(q)) :
         /\ Unblock(u)
         /\ yieldPending' = (yieldPending \/ Prio[u] > Prio[current])

\* A task wakes a waiter and yields to it at once if it has the priority.
WakeAndYield(q) ==
  IF Awaiting(q) = {} THEN UNCHANGED <<listVars, current, yieldPending>>
  ELSE \E u \in FirstOf(Awaiting(q)) :
         /\ Unblock(u)
         /\ IF Prio[u] > Prio[current] THEN SwitchContext
            ELSE UNCHANGED <<current, yieldPending>>

\* MUTANT of AddToDelayed: no list of its own for ticks after the wrap.
AddNoOverflow(t, wait, forever) ==
  LET at == Plus(tick, wait) IN
  IF wait = portMAX_DELAY /\ forever
  THEN list' = [list EXCEPT ![t] = "suspended"] /\ UNCHANGED <<wake, nextUnblock>>
  ELSE /\ wake' = [wake EXCEPT ![t] = at]
       /\ list' = [list EXCEPT ![t] = "delayed"]
       /\ nextUnblock' = IF at < nextUnblock THEN at ELSE nextUnblock

\* prvAddCurrentTaskToDelayedList()
AddToDelayed(t, wait, forever) ==
  LET at == Plus(tick, wait) IN
  IF wait = portMAX_DELAY /\ forever
  THEN /\ list' = [list EXCEPT ![t] = "suspended"]
       /\ UNCHANGED <<wake, nextUnblock>>
  ELSE /\ wake' = [wake EXCEPT ![t] = at]
       /\ list' = [list EXCEPT ![t] = IF at < tick THEN "overflow" ELSE "delayed"]
       /\ nextUnblock' = IF at >= tick /\ at < nextUnblock THEN at ELSE nextUnblock

-----------------------------------------------------------------------------
(* The tick.                                                               *)

\* t's call has a clock and it runs.
Timing(t) == \/ timed[t] /\ ticks[t] # portMAX_DELAY
             \/ call[t] = "delay" /\ list[t] # "ready"

\* taskSWITCH_DELAYED_LISTS(), when the counter wraps.
Swapped == [t \in Tasks |-> CASE list[t] = "delayed"  -> "overflow"
                              [] list[t] = "overflow" -> "delayed"
                              [] OTHER -> list[t]]

\* xTaskIncrementTick(), the scheduler not being suspended: one tick more,
\* and whoever was to wake by then is ready and waits for no event.
CountTick ==
  LET now   == Plus(tick, 1)
      lists == IF now = 0 THEN Swapped ELSE list
      asleep == {t \in Tasks : lists[t] = "delayed"}
      next  == IF now = 0 THEN FirstWake(asleep) ELSE nextUnblock
      due   == IF now >= next THEN {t \in asleep : wake[t] <= now} ELSE {}
  IN /\ tick' = now
     /\ MakeReady(due, lists)
     /\ event' = [t \in Tasks |-> IF t \in due THEN "none" ELSE event[t]]
     /\ nextUnblock' = IF now >= next THEN FirstWake(asleep \ due) ELSE next
     /\ timeOut' = [t \in Tasks |->
                     [timeOut[t] EXCEPT !.wrapped = @ \/ (timed[t] /\ now = 0)]]
     /\ elapsed' = [t \in Tasks |->
                     IF Timing(t) /\ elapsed[t] < Starved THEN elapsed[t] + 1
                     ELSE elapsed[t]]

\* MUTANT of SwitchRequired: xYieldPending is not looked at.
SwitchIfWoken ==
  \/ \E t \in Tasks : list[t] # "ready" /\ list'[t] = "ready" /\ Prio[t] >= Prio[current]
  \/ \E t, u \in Tasks : /\ t # u /\ Prio[t] = Prio[current] /\ Prio[u] = Prio[current]
                         /\ list'[t] = "ready" /\ list'[u] = "ready"

\* Its result: a task it woke has the priority, or is due a share of the time.
SwitchRequired ==
  \/ yieldPending
  \/ \E t \in Tasks : list[t] # "ready" /\ list'[t] = "ready" /\ Prio[t] >= Prio[current]
  \/ \E t, u \in Tasks : /\ t # u /\ Prio[t] = Prio[current] /\ Prio[u] = Prio[current]
                         /\ list'[t] = "ready" /\ list'[u] = "ready"

\* xTaskResumeAll() runs with interrupts off until it yields or returns.
InterruptsOn == pc[current] # "unwind"

\* vPortSysTickHandler()
TickInterrupt ==
  /\ InterruptsOn /\ ~schedSuspended
  /\ CountTick
  /\ IF SwitchRequired THEN SwitchContext ELSE UNCHANGED <<current, yieldPending>>
  /\ UNCHANGED <<pendedTicks, schedSuspended, queueVars, pc, call, ticks, timed, why, asked>>

\* The same while the scheduler is suspended; a switch is refused.
TickPended ==
  /\ InterruptsOn /\ schedSuspended /\ pendedTicks < MaxPended
  /\ pendedTicks' = pendedTicks + 1
  /\ UNCHANGED <<current, listVars, tickVars, schedSuspended, yieldPending,
                 queueVars, pc, callVars>>

-----------------------------------------------------------------------------
(* Calls from interrupts.  The MAC handler does not switch when it returns: *)
(* g_mac_context_switch is set and never read.                             *)

\* xQueueGenericSendFromISR(), xQueueGiveFromISR(); a full queue refuses.
SendFromISR ==
  /\ InterruptsOn
  /\ count < QLen
  /\ count' = count + 1
  /\ IF txLock = queueUNLOCKED
     THEN WakeLater("recv") /\ UNCHANGED txLock
     ELSE /\ txLock < MaxLock /\ txLock' = txLock + 1
          /\ UNCHANGED <<listVars, yieldPending>>
  /\ UNCHANGED <<current, tickVars, pendedTicks, schedSuspended, rxLock, pc, callVars>>

\* xQueueReceiveFromISR()
ReceiveFromISR ==
  /\ InterruptsOn
  /\ count > 0
  /\ count' = count - 1
  /\ IF rxLock = queueUNLOCKED
     THEN WakeLater("send") /\ UNCHANGED rxLock
     ELSE /\ rxLock < MaxLock /\ rxLock' = rxLock + 1
          /\ UNCHANGED <<listVars, yieldPending>>
  /\ UNCHANGED <<current, tickVars, pendedTicks, schedSuspended, txLock, pc, callVars>>

-----------------------------------------------------------------------------
(* xQueueGenericSend() and xQueueGenericReceive().                         *)

At(t, where) == current = t /\ pc[t] = where

Goto(t, where) == pc' = [pc EXCEPT ![t] = where]

\* t's call ends; its locals are dead.
Return(t) ==
  /\ Goto(t, "app")
  /\ call' = [call EXCEPT ![t] = "none"]
  /\ ticks' = [ticks EXCEPT ![t] = 0]
  /\ timed' = [timed EXCEPT ![t] = FALSE]
  /\ timeOut' = [timeOut EXCEPT ![t] = NoTimeOut]
  /\ why' = [why EXCEPT ![t] = "none"]
  /\ asked' = [asked EXCEPT ![t] = 0]
  /\ elapsed' = [elapsed EXCEPT ![t] = 0]

Begin(t, kind, wait, where) ==
  /\ At(t, "app") /\ kind \in Calls[t]
  /\ Goto(t, where)
  /\ call' = [call EXCEPT ![t] = kind]
  /\ ticks' = [ticks EXCEPT ![t] = wait]
  /\ asked' = [asked EXCEPT ![t] = wait]
  /\ UNCHANGED <<current, listVars, tickVars, pendedTicks, schedSuspended,
                 yieldPending, queueVars, timed, timeOut, why, elapsed>>

\* The queue can serve t's call now.
Possible(t) == IF call[t] = "send" THEN count < QLen ELSE count > 0

\* The first critical section: done, ...
Succeed(t) ==
  /\ At(t, "try") /\ Possible(t)
  /\ IF call[t] = "send"
     THEN count' = count + 1 /\ WakeAndYield("recv")
     ELSE count' = count - 1 /\ WakeAndYield("send")
  /\ Return(t)
  /\ UNCHANGED <<tickVars, pendedTicks, schedSuspended, txLock, rxLock>>

\* ... refused at once, since no time was given, ...
Refuse(t) ==
  /\ At(t, "try") /\ ~Possible(t) /\ ticks[t] = 0
  /\ Return(t)
  /\ UNCHANGED <<current, listVars, tickVars, pendedTicks, schedSuspended,
                 yieldPending, queueVars>>

\* ... or about to wait, from now on when it is the first time round.
Wait(t) ==
  /\ At(t, "try") /\ ~Possible(t) /\ ticks[t] # 0
  /\ timed' = [timed EXCEPT ![t] = TRUE]
  /\ timeOut' = IF timed[t] THEN timeOut
                ELSE [timeOut EXCEPT ![t] = [time |-> tick, wrapped |-> FALSE]]
  /\ Goto(t, "suspend")
  /\ UNCHANGED <<current, listVars, tickVars, pendedTicks, schedSuspended,
                 yieldPending, queueVars, call, ticks, why, asked, elapsed>>

\* vTaskSuspendAll(), here or in vTaskDelay().
SuspendAll(t) ==
  /\ current = t /\ pc[t] \in {"suspend", "delay"}
  /\ schedSuspended' = TRUE
  /\ Goto(t, IF pc[t] = "delay" THEN "place" ELSE "lock")
  /\ why' = [why EXCEPT ![t] = IF pc[t] = "delay" THEN "block" ELSE @]
  /\ UNCHANGED <<current, listVars, tickVars, pendedTicks, yieldPending,
                 queueVars, call, ticks, timed, timeOut, asked, elapsed>>

\* prvLockQueue()
LockQueue(t) ==
  /\ At(t, "lock")
  /\ txLock' = IF txLock = queueUNLOCKED THEN queueLOCKED_UNMODIFIED ELSE txLock
  /\ rxLock' = IF rxLock = queueUNLOCKED THEN queueLOCKED_UNMODIFIED ELSE rxLock
  /\ Goto(t, "check")
  /\ UNCHANGED <<current, listVars, tickVars, pendedTicks, schedSuspended,
                 yieldPending, count, callVars>>

\* How long t has waited by the counter, and xTaskCheckForTimeOut()'s verdict.
Passed(t) == Minus(tick, timeOut[t].time)

\* MUTANT of Expired: portMAX_DELAY is a number of ticks.
NeverForever(t) == \/ timeOut[t].wrapped /\ tick >= timeOut[t].time
                   \/ Passed(t) >= ticks[t]

Expired(t) == /\ ticks[t] # portMAX_DELAY
              /\ \/ timeOut[t].wrapped /\ tick >= timeOut[t].time
                 \/ Passed(t) >= ticks[t]

\* MUTANT of CheckForTimeOut: the clock is not set again for the time left.
CheckNoRestart(t) ==
  /\ At(t, "check")
  /\ IF Expired(t)
     THEN /\ why' = [why EXCEPT ![t] = "expired"] /\ Goto(t, "unlockTx")
          /\ UNCHANGED ticks
     ELSE /\ Goto(t, "test") /\ UNCHANGED why
          /\ ticks' = IF ticks[t] = portMAX_DELAY THEN ticks
                      ELSE [ticks EXCEPT ![t] = @ - Passed(t)]
  /\ UNCHANGED <<current, listVars, tickVars, pendedTicks, schedSuspended,
                 yieldPending, queueVars, call, timed, timeOut, asked, elapsed>>

\* xTaskCheckForTimeOut(): time is left, and is counted from now on, or not.
CheckForTimeOut(t) ==
  /\ At(t, "check")
  /\ IF Expired(t)
     THEN /\ why' = [why EXCEPT ![t] = "expired"] /\ Goto(t, "unlockTx")
          /\ UNCHANGED <<ticks, timeOut>>
     ELSE /\ Goto(t, "test") /\ UNCHANGED why
          /\ IF ticks[t] = portMAX_DELAY THEN UNCHANGED <<ticks, timeOut>>
             ELSE /\ ticks' = [ticks EXCEPT ![t] = @ - Passed(t)]
                  /\ timeOut' = [timeOut EXCEPT ![t] = [time |-> tick, wrapped |-> FALSE]]
  /\ UNCHANGED <<current, listVars, tickVars, pendedTicks, schedSuspended,
                 yieldPending, queueVars, call, timed, asked, elapsed>>

\* MUTANT of TestAgain: the queue is not looked at again once it is locked.
TestNotAgain(t) ==
  /\ At(t, "test")
  /\ why' = [why EXCEPT ![t] = "block"]
  /\ Goto(t, "place")
  /\ UNCHANGED <<current, listVars, tickVars, pendedTicks, schedSuspended,
                 yieldPending, queueVars, call, ticks, timed, timeOut, asked, elapsed>>

\* prvIsQueueFull(), prvIsQueueEmpty(), now that the queue is locked.
TestAgain(t) ==
  /\ At(t, "test")
  /\ why' = [why EXCEPT ![t] = IF Possible(t) THEN "retry" ELSE "block"]
  /\ Goto(t, IF Possible(t) THEN "unlockTx" ELSE "place")
  /\ UNCHANGED <<current, listVars, tickVars, pendedTicks, schedSuspended,
                 yieldPending, queueVars, call, ticks, timed, timeOut, asked, elapsed>>

\* vTaskPlaceOnEventList(); vTaskDelay() waits for no event.
Place(t) ==
  /\ At(t, "place")
  /\ IF call[t] = "delay"
     THEN /\ UNCHANGED event /\ Goto(t, "resume")
          /\ AddToDelayed(t, ticks[t], FALSE)
     ELSE /\ event' = [event EXCEPT ![t] = call[t]] /\ Goto(t, "unlockTx")
          /\ AddToDelayed(t, ticks[t], TRUE)
  /\ UNCHANGED <<current, tick, pendedTicks, schedSuspended, yieldPending,
                 queueVars, callVars>>

\* MUTANT of WakeMany: the woken are not put on the pending list.
WakeUnlisted(q, n) ==
  \E S \in SUBSET Awaiting(q) :
    /\ Cardinality(S) <= n
    /\ Cardinality(S) < n => S = Awaiting(q)
    /\ \A u \in S, v \in Awaiting(q) \ S : Prio[u] >= Prio[v]
    /\ event' = [t \in Tasks |-> IF t \in S THEN "none" ELSE event[t]]
    /\ yieldPending' = (yieldPending \/ \E u \in S : Prio[u] > Prio[current])

\* prvUnlockQueue(): as many waiters as were served meanwhile are woken, the
\* first ones first.
WakeMany(q, n) ==
  \E S \in SUBSET Awaiting(q) :
    /\ Cardinality(S) <= n
    /\ Cardinality(S) < n => S = Awaiting(q)
    /\ \A u \in S, v \in Awaiting(q) \ S : Prio[u] >= Prio[v]
    /\ event' = [t \in Tasks |-> IF t \in S THEN "pending" ELSE event[t]]
    /\ yieldPending' = (yieldPending \/ \E u \in S : Prio[u] > Prio[current])

UnlockTx(t) ==
  /\ At(t, "unlockTx")
  /\ WakeMany("recv", txLock)
  /\ txLock' = queueUNLOCKED
  /\ Goto(t, "unlockRx")
  /\ UNCHANGED <<current, list, wake, tickVars, pendedTicks, schedSuspended,
                 count, rxLock, callVars>>

UnlockRx(t) ==
  /\ At(t, "unlockRx")
  /\ WakeMany("send", rxLock)
  /\ rxLock' = queueUNLOCKED
  /\ Goto(t, "resume")
  /\ UNCHANGED <<current, list, wake, tickVars, pendedTicks, schedSuspended,
                 count, txLock, callVars>>

\* xTaskResumeAll(): the tasks held pending are ready, ...
ResumeAll(t) ==
  /\ At(t, "resume")
  /\ schedSuspended' = FALSE
  /\ MakeReady(Awaiting("pending"), list)
  /\ event' = [u \in Tasks |-> IF event[u] = "pending" THEN "none" ELSE event[u]]
  /\ yieldPending' = (yieldPending \/ \E u \in Awaiting("pending") : Prio[u] >= Prio[current])
  /\ nextUnblock' = IF Awaiting("pending") = {} THEN nextUnblock
                    ELSE FirstWake({u \in Tasks : list[u] = "delayed" /\ event[u] # "pending"})
  /\ Goto(t, "unwind")
  /\ UNCHANGED <<current, tick, pendedTicks, queueVars, callVars>>

\* ... the ticks held pending are counted one by one, ...
UnwindTick(t) ==
  /\ At(t, "unwind") /\ pendedTicks > 0
  /\ CountTick
  /\ pendedTicks' = pendedTicks - 1
  /\ yieldPending' = SwitchRequired
  /\ UNCHANGED <<current, schedSuspended, queueVars, pc, call, ticks, timed, why, asked>>

\* Where t goes on when it next runs: the queue is tried again, vTaskDelay()
\* and vTaskSuspend() return.
Continue(t) ==
  /\ Goto(t, IF call[t] \in {"delay", "stop"} THEN "woken" ELSE "try")
  /\ why' = [why EXCEPT ![t] = "none"]
  /\ UNCHANGED <<call, ticks, timed, timeOut, asked, elapsed>>

\* ... and it yields if anything has asked for it.  A task that blocked and
\* has not yielded does so next; one whose time is up reports it, but a
\* receiver looks once more.
Resumed(t) ==
  /\ At(t, "unwind") /\ pendedTicks = 0
  /\ UNCHANGED listVars
  /\ IF yieldPending THEN SwitchContext ELSE UNCHANGED <<current, yieldPending>>
  /\ CASE why[t] = "expired" /\ call[t] = "send" -> Return(t)
       [] why[t] = "expired" /\ call[t] = "recv" -> Goto(t, "verdict") /\ UNCHANGED callVars
       [] why[t] = "block" /\ ~yieldPending -> Goto(t, "yield") /\ UNCHANGED callVars
       [] OTHER -> Continue(t)
  /\ UNCHANGED <<tickVars, pendedTicks, schedSuspended, queueVars>>

\* portYIELD_WITHIN_API()
Yield(t) ==
  /\ At(t, "yield")
  /\ UNCHANGED list
  /\ SwitchContext
  /\ Continue(t)
  /\ UNCHANGED <<wake, event, tickVars, pendedTicks, schedSuspended, queueVars>>

Woken(t) ==
  /\ At(t, "woken")
  /\ Return(t)
  /\ UNCHANGED <<current, listVars, tickVars, pendedTicks, schedSuspended,
                 yieldPending, queueVars>>

\* A receiver whose time is up: errQUEUE_EMPTY, or round again.
Verdict(t) ==
  /\ At(t, "verdict")
  /\ IF count = 0 THEN Return(t) ELSE Continue(t)
  /\ UNCHANGED <<current, listVars, tickVars, pendedTicks, schedSuspended,
                 yieldPending, queueVars>>

-----------------------------------------------------------------------------
(* vTaskSuspend(NULL) and vTaskResume().                                   *)

\* The running task leaves the ready list for good, ...
Stop(t) ==
  /\ At(t, "app") /\ "stop" \in Calls[t]
  /\ list' = [list EXCEPT ![t] = "suspended"]
  /\ call' = [call EXCEPT ![t] = "stop"]
  /\ Goto(t, "reset")
  /\ UNCHANGED <<current, wake, event, tickVars, pendedTicks, schedSuspended,
                 yieldPending, queueVars, ticks, timed, timeOut, why, asked, elapsed>>

\* ... prvResetNextTaskUnblockTime() is called, and it yields.
ResetUnblock(t) ==
  /\ At(t, "reset")
  /\ nextUnblock' = FirstWake({u \in Tasks : list[u] = "delayed"})
  /\ Goto(t, "yield")
  /\ UNCHANGED <<current, listVars, tick, pendedTicks, schedSuspended,
                 yieldPending, queueVars, callVars>>

\* Only a task that waits for nothing else is resumed: prvTaskIsTaskSuspended().
Resume(t, u) ==
  /\ At(t, "app") /\ "resume" \in Calls[t] /\ u # t
  /\ list[u] = "suspended" /\ event[u] = "none"
  /\ MakeReady({u}, list)
  /\ IF Prio[u] >= Prio[t] THEN SwitchContext ELSE UNCHANGED <<current, yieldPending>>
  /\ UNCHANGED <<event, tickVars, pendedTicks, schedSuspended, queueVars, pc, callVars>>

-----------------------------------------------------------------------------
\* vTaskStartScheduler() starts with a task of the highest priority.
Init ==
  /\ current \in FirstOf(Tasks)
  /\ list = [t \in Tasks |-> "ready"] /\ wake = [t \in Tasks |-> 0]
  /\ event = [t \in Tasks |-> "none"]
  /\ tick = 0 /\ nextUnblock = portMAX_DELAY
  /\ pendedTicks = 0 /\ schedSuspended = FALSE /\ yieldPending = FALSE
  /\ count = 0 /\ txLock = queueUNLOCKED /\ rxLock = queueUNLOCKED
  /\ pc = [t \in Tasks |-> "app"] /\ call = [t \in Tasks |-> "none"]
  /\ ticks = [t \in Tasks |-> 0] /\ timed = [t \in Tasks |-> FALSE]
  /\ timeOut = [t \in Tasks |-> NoTimeOut]
  /\ why = [t \in Tasks |-> "none"]
  /\ asked = [t \in Tasks |-> 0] /\ elapsed = [t \in Tasks |-> 0]

CallQueue(t) == \E kind \in {"send", "recv"}, w \in Waits[t] : Begin(t, kind, w, "try")
CallDelay(t) == \E w \in Waits[t] \ {0} : Begin(t, "delay", w, "delay")

\* What t does of itself, and what it must do once it is in a call.
Ask(t)  == CallQueue(t) \/ CallDelay(t) \/ Stop(t) \/ \E u \in Tasks : Resume(t, u)
Step(t) == \/ Succeed(t) \/ Refuse(t) \/ Wait(t) \/ SuspendAll(t) \/ LockQueue(t)
           \/ CheckForTimeOut(t) \/ TestAgain(t) \/ Place(t) \/ UnlockTx(t)
           \/ UnlockRx(t) \/ ResumeAll(t) \/ UnwindTick(t) \/ Resumed(t)
           \/ Yield(t) \/ Woken(t) \/ Verdict(t) \/ ResetUnblock(t)

Next == \/ TickInterrupt \/ TickPended \/ SendFromISR \/ ReceiveFromISR
        \/ \E t \in Tasks : Ask(t) \/ Step(t)

Spec == Init /\ [][Next]_vars

\* The timer fires and the running task goes on with its call.  No task has
\* to make one, and no interrupt but the timer's has to come.
FairSpec == /\ Spec
            /\ WF_vars(TickInterrupt \/ TickPended)
            /\ \A t \in Tasks : WF_vars(Step(t))
=============================================================================
