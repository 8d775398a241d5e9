---------------------------- MODULE KernelProofs ----------------------------
(***************************************************************************)
(* Safety of the kernel, for any tasks, priorities, calls, time limits,    *)
(* queue length and width of the tick counter.                             *)
(***************************************************************************)
EXTENDS KernelProps, TLAPS, WellFoundedInduction, FiniteSetTheorems

(***************************************************************************)
(* The inductive invariant: what may be assumed of a task from where it    *)
(* is, and how the clocks of the calls stand against the tick counter.     *)
(***************************************************************************)

\* The labels at which the running task has suspended the scheduler, and those
\* at which it may not lose the processor.
Held    == {"lock", "check", "test", "place", "unlockTx", "unlockRx", "resume"}
Serving == {"unlockTx", "unlockRx", "resume", "unwind"}

\* Only the running task is where the scheduler is suspended.
OneSuspends ==
  /\ schedSuspended <=> pc[current] \in Held
  /\ \A t \in Tasks : t # current => pc[t] \notin Held \cup {"unwind"}

\* Which call a task is in, and why it is about to leave it, by where it is.
CallAt ==
  \A t \in Tasks :
    /\ pc[t] = "app" <=> call[t] = "none"
    /\ pc[t] \in {"try", "suspend", "lock", "check", "test", "unlockTx", "unlockRx", "verdict"}
         => call[t] \in {"send", "recv"}
    /\ pc[t] = "delay" => call[t] = "delay"
    /\ pc[t] \in {"place", "resume", "unwind"} => call[t] # "stop"
    /\ pc[t] = "woken" => call[t] \in {"delay", "stop"}
    /\ pc[t] = "reset" => call[t] = "stop"

WhyAt ==
  \A t \in Tasks :
    /\ why[t] = "expired" => pc[t] \in Serving \cup {"verdict"} /\ call[t] \in {"send", "recv"}
    /\ why[t] = "retry" => pc[t] \in Serving
    /\ why[t] = "block" => pc[t] \in Serving \cup {"place", "yield"}
    /\ pc[t] \in Serving \cup {"place"} => why[t] # "none"
    /\ pc[t] = "verdict" => why[t] = "expired"

\* A task that is not ready has blocked itself and has not yielded yet, or will
\* go on from there.
Blocked ==
  \A t \in Tasks : list[t] # "ready" =>
    \/ pc[t] \in {"yield", "reset"}
    \/ t = current /\ pc[t] \in Serving /\ why[t] = "block"
    \/ t # current /\ pc[t] \in {"try", "woken"}

\* The clock of t has run for Ran(t) ticks since it was last set.
Ran(t) == elapsed[t] - (asked[t] - ticks[t])

InCall(t) == call[t] \in {"send", "recv"}

\* The limits a call carries, before its clock is set and after.
LimitOf(t) ==
  /\ ticks[t] = portMAX_DELAY <=> asked[t] = portMAX_DELAY
  /\ ticks[t] <= asked[t]
  /\ ~timed[t] => ticks[t] = asked[t]
  /\ ~timed[t] /\ call[t] # "delay" => elapsed[t] = 0
  /\ timed[t] => InCall(t)
  /\ InCall(t) /\ pc[t] # "try" => timed[t]
  /\ pc[t] = "delay" \/ (pc[t] = "place" /\ call[t] = "delay") => elapsed[t] = 0 /\ ticks[t] > 0

\* The clock of a call whose limit is a number of ticks: what xTimeOut and the
\* counter tell of it is how long it has run.
ClockOf(t) ==
  timed[t] /\ ticks[t] # portMAX_DELAY /\ elapsed[t] < Starved =>
    /\ Ran(t) >= 0
    /\ timeOut[t].wrapped => tick + TickRange = timeOut[t].time + Ran(t)
    /\ ~timeOut[t].wrapped => tick = timeOut[t].time + Ran(t)
    /\ pc[t] \in {"test", "place"} => Ran(t) = 0 /\ ticks[t] > 0

\* A call that has expired had a limit, and its time is over.
ExpiryOf(t) ==
  why[t] = "expired" =>
    asked[t] # portMAX_DELAY /\ (elapsed[t] < Starved => elapsed[t] >= asked[t])

\* A task on a delayed list is timed, sleeps what its limit has left, and
\* xTaskIncrementTick() will look at the list in time.
SleepOf(t) ==
  list[t] \in {"delayed", "overflow"} =>
    LET left == asked[t] - elapsed[t] IN
    /\ Timing(t)
    /\ elapsed[t] < Starved =>
         /\ left > 0
         /\ list[t] = "delayed" => wake[t] = tick + left
         /\ list[t] = "overflow" => wake[t] + TickRange = tick + left
    /\ list[t] = "delayed" => nextUnblock <= wake[t]

TimesOf(t) == LimitOf(t) /\ ClockOf(t) /\ ExpiryOf(t) /\ SleepOf(t)

\* A ready task of a higher priority: one runs, or a yield is pending.
Heeded == \A t \in Tasks : list[t] = "ready" => Prio[t] <= Prio[current] \/ yieldPending

IInv == /\ TypeOK
        /\ OneSuspends /\ CallAt /\ WhyAt /\ Blocked /\ NoneStranded
        /\ \A t \in Tasks : TimesOf(t)
        /\ Heeded

USE TaskAssumption, PrioAssumption, CallAssumption, RangeAssumption, WaitAssumption, SizeAssumption

-----------------------------------------------------------------------------
(* Ticks and the delayed list.                                             *)

\* Any nonempty set of ticks has a first one.
LEMMA FirstExists ==
  ASSUME NEW W \in SUBSET Nat, W # {}
  PROVE  \E w \in W : \A v \in W : w <= v
<1>1. \E w \in W : \A v \in W : ~(<<v, w>> \in OpToRel(<, Nat))
  BY NatLessThanWellFounded, WFMin
<1>2. PICK w \in W : \A v \in W : ~(<<v, w>> \in OpToRel(<, Nat))
  BY <1>1
<1>3. \A v \in W : ~(v < w)
  BY <1>2 DEF OpToRel
<1> QED
  BY <1>3

\* FirstWake() is a tick, and no task of the set is to wake before it.
LEMMA FirstWakeIsFirst ==
  ASSUME TypeOK, NEW S \in SUBSET Tasks
  PROVE  /\ FirstWake(S) \in 0 .. portMAX_DELAY
         /\ \A t \in S : FirstWake(S) <= wake[t]
<1>1. CASE S = {}
  BY <1>1 DEF FirstWake, portMAX_DELAY
<1>2. CASE S # {}
  <2> DEFINE W == {wake[t] : t \in S}
  <2>1. W \in SUBSET Nat /\ W # {} /\ W \subseteq 0 .. portMAX_DELAY
    BY <1>2 DEF TypeOK
  <2>2. PICK w \in W : \A v \in W : w <= v
    BY <2>1, FirstExists
  <2>3. \A t \in S : w <= wake[t]
    BY <2>2
  <2>4. /\ FirstWake(S) \in W
        /\ \A t \in S : FirstWake(S) <= wake[t]
    BY <1>2, <2>2, <2>3 DEF FirstWake
  <2> QED
    BY <2>1, <2>4
<1> QED
  BY <1>1, <1>2

\* Sums and differences of ticks are ticks.
LEMMA TickArithmetic ==
  ASSUME NEW a \in 0 .. portMAX_DELAY, NEW b \in 0 .. portMAX_DELAY
  PROVE  Plus(a, b) \in 0 .. portMAX_DELAY /\ Minus(a, b) \in 0 .. portMAX_DELAY
BY DEF Plus, Minus, portMAX_DELAY

-----------------------------------------------------------------------------
(* Types.                                                                  *)

LEMMA InitType == Init => TypeOK
<1> SUFFICES ASSUME Init PROVE TypeOK
  OBVIOUS
<1> USE DEF Init
<1>1. portMAX_DELAY \in Nat /\ portMAX_DELAY \in 0 .. portMAX_DELAY /\ 0 \in 0 .. portMAX_DELAY
  BY DEF portMAX_DELAY
<1>2. /\ current \in Tasks /\ schedSuspended \in BOOLEAN /\ yieldPending \in BOOLEAN
      /\ timed \in [Tasks -> BOOLEAN]
  BY DEF FirstOf
<1>3. timeOut \in [Tasks -> [time : 0 .. portMAX_DELAY, wrapped : BOOLEAN]]
  BY <1>1 DEF NoTimeOut
<1>4. /\ pendedTicks \in 0 .. MaxPended /\ count \in 0 .. QLen
      /\ txLock \in queueUNLOCKED .. MaxLock /\ rxLock \in queueUNLOCKED .. MaxLock
      /\ elapsed \in [Tasks -> 0 .. Starved]
  BY DEF queueUNLOCKED, Starved
<1>5. /\ wake \in [Tasks -> 0 .. portMAX_DELAY] /\ ticks \in [Tasks -> 0 .. portMAX_DELAY]
      /\ asked \in [Tasks -> 0 .. portMAX_DELAY]
      /\ tick \in 0 .. portMAX_DELAY /\ nextUnblock \in 0 .. portMAX_DELAY
  BY <1>1
<1> QED
  BY <1>2, <1>3, <1>4, <1>5 DEF TypeOK

\* Waking and blocking keep the types of the lists.
LEMMA MakeReadyType ==
  ASSUME TypeOK, NEW S, NEW l \in [Tasks -> {"ready", "delayed", "overflow", "suspended"}],
         MakeReady(S, l)
  PROVE  /\ list' \in [Tasks -> {"ready", "delayed", "overflow", "suspended"}]
         /\ wake' \in [Tasks -> 0 .. portMAX_DELAY]
BY DEF MakeReady, TypeOK, portMAX_DELAY

LEMMA UnblockType ==
  ASSUME TypeOK, NEW u \in Tasks, Unblock(u)
  PROVE  /\ list' \in [Tasks -> {"ready", "delayed", "overflow", "suspended"}]
         /\ wake' \in [Tasks -> 0 .. portMAX_DELAY]
         /\ event' \in [Tasks -> {"none", "send", "recv", "pending"}]
<1> USE DEF TypeOK
<1>1. CASE schedSuspended
  BY <1>1, SMTT(30) DEF Unblock
<1>2. CASE ~schedSuspended
  BY <1>2, MakeReadyType DEF Unblock
<1> QED
  BY <1>1, <1>2

LEMMA SwitchType ==
  ASSUME SwitchContext
  PROVE  current' \in Tasks /\ yieldPending' \in BOOLEAN
BY DEF SwitchContext, FirstOf

LEMMA WakeLaterType ==
  ASSUME TypeOK, NEW q, WakeLater(q)
  PROVE  /\ list' \in [Tasks -> {"ready", "delayed", "overflow", "suspended"}]
         /\ wake' \in [Tasks -> 0 .. portMAX_DELAY]
         /\ event' \in [Tasks -> {"none", "send", "recv", "pending"}]
         /\ yieldPending' \in BOOLEAN
<1>1. CASE Awaiting(q) = {}
  BY <1>1 DEF WakeLater, TypeOK, listVars
<1>2. CASE Awaiting(q) # {}
  <2>1. PICK u \in Tasks : /\ Unblock(u)
                           /\ yieldPending' = (yieldPending \/ Prio[u] > Prio[current])
    BY <1>2 DEF WakeLater, FirstOf, Awaiting
  <2>2. yieldPending' \in BOOLEAN
    BY <2>1, Zenon
  <2> QED
    BY <2>1, <2>2, UnblockType
<1> QED
  BY <1>1, <1>2

LEMMA WakeAndYieldType ==
  ASSUME TypeOK, NEW q, WakeAndYield(q)
  PROVE  /\ list' \in [Tasks -> {"ready", "delayed", "overflow", "suspended"}]
         /\ wake' \in [Tasks -> 0 .. portMAX_DELAY]
         /\ event' \in [Tasks -> {"none", "send", "recv", "pending"}]
         /\ current' \in Tasks /\ yieldPending' \in BOOLEAN
<1>1. CASE Awaiting(q) = {}
  BY <1>1 DEF WakeAndYield, TypeOK, listVars
<1>2. CASE Awaiting(q) # {}
  <2>1. PICK u \in Tasks : /\ Unblock(u)
                           /\ IF Prio[u] > Prio[current] THEN SwitchContext
                              ELSE UNCHANGED <<current, yieldPending>>
    BY <1>2 DEF WakeAndYield, FirstOf, Awaiting
  <2>2. current' \in Tasks /\ yieldPending' \in BOOLEAN
    BY <2>1, SwitchType DEF TypeOK
  <2> QED
    BY <2>1, <2>2, UnblockType
<1> QED
  BY <1>1, <1>2

LEMMA AddToDelayedType ==
  ASSUME TypeOK, NEW t \in Tasks, NEW wait \in 0 .. portMAX_DELAY, NEW forever,
         AddToDelayed(t, wait, forever)
  PROVE  /\ list' \in [Tasks -> {"ready", "delayed", "overflow", "suspended"}]
         /\ wake' \in [Tasks -> 0 .. portMAX_DELAY]
         /\ nextUnblock' \in 0 .. portMAX_DELAY
<1> DEFINE at == Plus(tick, wait)
<1> USE DEF TypeOK
<1>1. at \in 0 .. portMAX_DELAY
  BY TickArithmetic
<1>2. CASE wait = portMAX_DELAY /\ forever
  BY <1>2, ZenonT(30) DEF AddToDelayed
<1>3. CASE ~(wait = portMAX_DELAY /\ forever)
  <2>1. /\ wake' = [wake EXCEPT ![t] = at]
        /\ list' = [list EXCEPT ![t] = IF at < tick THEN "overflow" ELSE "delayed"]
        /\ nextUnblock' = IF at >= tick /\ at < nextUnblock THEN at ELSE nextUnblock
    BY <1>3 DEF AddToDelayed
  <2> HIDE DEF at
  <2> QED
    BY <1>1, <2>1
<1> QED
  BY <1>2, <1>3

LEMMA CountTickType ==
  ASSUME TypeOK, CountTick
  PROVE  /\ tick' \in 0 .. portMAX_DELAY /\ nextUnblock' \in 0 .. portMAX_DELAY
         /\ list' \in [Tasks -> {"ready", "delayed", "overflow", "suspended"}]
         /\ wake' \in [Tasks -> 0 .. portMAX_DELAY]
         /\ event' \in [Tasks -> {"none", "send", "recv", "pending"}]
         /\ timeOut' \in [Tasks -> [time : 0 .. portMAX_DELAY, wrapped : BOOLEAN]]
         /\ elapsed' \in [Tasks -> 0 .. Starved]
<1> DEFINE now == Plus(tick, 1)
           lists == IF now = 0 THEN Swapped ELSE list
           asleep == {t \in Tasks : lists[t] = "delayed"}
           next == IF now = 0 THEN FirstWake(asleep) ELSE nextUnblock
           due == IF now >= next THEN {t \in asleep : wake[t] <= now} ELSE {}
<1>1. now \in 0 .. portMAX_DELAY
  BY TickArithmetic DEF TypeOK, portMAX_DELAY
<1>2. lists \in [Tasks -> {"ready", "delayed", "overflow", "suspended"}]
  BY DEF Swapped, TypeOK
<1>3. next \in 0 .. portMAX_DELAY /\ FirstWake(asleep \ due) \in 0 .. portMAX_DELAY
  BY FirstWakeIsFirst DEF TypeOK
<1>4. /\ tick' = now
      /\ MakeReady(due, lists)
      /\ event' = [t \in Tasks |-> IF t \in due THEN "none" ELSE event[t]]
      /\ nextUnblock' = IF now >= next THEN FirstWake(asleep \ due) ELSE next
      /\ timeOut' = [t \in Tasks |->
                      [timeOut[t] EXCEPT !.wrapped = @ \/ (timed[t] /\ now = 0)]]
      /\ elapsed' = [t \in Tasks |->
                      IF Timing(t) /\ elapsed[t] < Starved THEN elapsed[t] + 1
                      ELSE elapsed[t]]
  BY DEF CountTick
<1> HIDE DEF now, lists, asleep, next, due
<1>5. tick' \in 0 .. portMAX_DELAY /\ nextUnblock' \in 0 .. portMAX_DELAY
  BY <1>1, <1>3, <1>4
<1>6. /\ list' \in [Tasks -> {"ready", "delayed", "overflow", "suspended"}]
      /\ wake' \in [Tasks -> 0 .. portMAX_DELAY]
  BY <1>2, <1>4, MakeReadyType
<1>7. event' \in [Tasks -> {"none", "send", "recv", "pending"}]
  BY <1>4 DEF TypeOK
<1>8. timeOut' \in [Tasks -> [time : 0 .. portMAX_DELAY, wrapped : BOOLEAN]]
  <2>1. ASSUME NEW t \in Tasks
        PROVE  timeOut'[t] \in [time : 0 .. portMAX_DELAY, wrapped : BOOLEAN]
    <3> DEFINE w == timeOut[t].wrapped \/ (timed[t] /\ now = 0)
    <3>1. w \in BOOLEAN
      BY Zenon
    <3>2. timeOut'[t] = [timeOut[t] EXCEPT !.wrapped = w]
      BY <1>4
    <3>3. timeOut[t] \in [time : 0 .. portMAX_DELAY, wrapped : BOOLEAN]
      BY DEF TypeOK
    <3> HIDE DEF w
    <3> QED
      BY <3>1, <3>2, <3>3
  <2> QED
    BY <1>4, <2>1
<1>9. elapsed' \in [Tasks -> 0 .. Starved]
  BY <1>4 DEF TypeOK, Starved
<1> QED
  BY <1>5, <1>6, <1>7, <1>8, <1>9

\* What a call writes has its types.
LEMMA ReturnType ==
  ASSUME TypeOK, NEW t \in Tasks, Return(t)
  PROVE  /\ pc' \in [Tasks -> {"app", "try", "suspend", "lock", "check", "test", "place",
                                "unlockTx", "unlockRx", "resume", "unwind", "yield",
                                "woken", "verdict", "delay", "reset"}]
         /\ call' \in [Tasks -> {"none", "send", "recv", "delay", "stop"}]
         /\ ticks' \in [Tasks -> 0 .. portMAX_DELAY]
         /\ timed' \in [Tasks -> BOOLEAN]
         /\ timeOut' \in [Tasks -> [time : 0 .. portMAX_DELAY, wrapped : BOOLEAN]]
         /\ why' \in [Tasks -> {"none", "block", "retry", "expired"}]
         /\ asked' \in [Tasks -> 0 .. portMAX_DELAY]
         /\ elapsed' \in [Tasks -> 0 .. Starved]
<1>1. 0 \in 0 .. portMAX_DELAY /\ 0 \in 0 .. Starved
  BY DEF portMAX_DELAY, Starved
<1> QED
  BY <1>1 DEF Return, Goto, NoTimeOut, TypeOK

LEMMA ContinueType ==
  ASSUME TypeOK, NEW t \in Tasks, Continue(t)
  PROVE  /\ pc' \in [Tasks -> {"app", "try", "suspend", "lock", "check", "test", "place",
                                "unlockTx", "unlockRx", "resume", "unwind", "yield",
                                "woken", "verdict", "delay", "reset"}]
         /\ why' \in [Tasks -> {"none", "block", "retry", "expired"}]
         /\ UNCHANGED <<call, ticks, timed, timeOut, asked, elapsed>>
BY DEF Continue, Goto, TypeOK

\* Every step keeps the types.
LEMMA TypeStep == TypeOK /\ CallAt /\ [Next]_vars => TypeOK'
<1> SUFFICES ASSUME TypeOK, CallAt, [Next]_vars PROVE TypeOK'
  OBVIOUS
<1> USE DEF TypeOK, listVars, tickVars, queueVars, callVars, At, Goto
<1>1. CASE TickInterrupt
  <2>1. CountTick
    BY <1>1 DEF TickInterrupt
  <2>2. current' \in Tasks /\ yieldPending' \in BOOLEAN
    BY <1>1, SwitchType DEF TickInterrupt
  <2> QED
    BY <1>1, <2>1, <2>2, CountTickType DEF TickInterrupt
<1>2. CASE TickPended
  BY <1>2 DEF TickPended
<1>3. CASE SendFromISR
  <2>1. CASE txLock = queueUNLOCKED
    BY <1>3, <2>1, WakeLaterType DEF SendFromISR
  <2>2. CASE txLock # queueUNLOCKED
    BY <1>3, <2>2 DEF SendFromISR, queueUNLOCKED
  <2> QED
    BY <2>1, <2>2
<1>4. CASE ReceiveFromISR
  <2>1. CASE rxLock = queueUNLOCKED
    BY <1>4, <2>1, WakeLaterType DEF ReceiveFromISR
  <2>2. CASE rxLock # queueUNLOCKED
    BY <1>4, <2>2 DEF ReceiveFromISR, queueUNLOCKED
  <2> QED
    BY <2>1, <2>2
<1>5. ASSUME NEW t \in Tasks, CallQueue(t) PROVE TypeOK'
  BY <1>5 DEF CallQueue, Begin
<1>6. ASSUME NEW t \in Tasks, CallDelay(t) PROVE TypeOK'
  BY <1>6 DEF CallDelay, Begin
<1>7. ASSUME NEW t \in Tasks, Stop(t) PROVE TypeOK'
  BY <1>7 DEF Stop
<1>8. ASSUME NEW t \in Tasks, NEW u \in Tasks, Resume(t, u) PROVE TypeOK'
  <2>1. current' \in Tasks /\ yieldPending' \in BOOLEAN
    BY <1>8, SwitchType DEF Resume
  <2> QED
    BY <1>8, <2>1, MakeReadyType DEF Resume
<1>9. ASSUME NEW t \in Tasks, Succeed(t) PROVE TypeOK'
  <2>1. count' \in 0 .. QLen
    BY <1>9 DEF Succeed, Possible
  <2>2. \E q \in {"send", "recv"} : WakeAndYield(q)
    BY <1>9 DEF Succeed
  <2>3. Return(t) /\ UNCHANGED <<tickVars, pendedTicks, schedSuspended, txLock, rxLock>>
    BY <1>9 DEF Succeed
  <2> QED
    BY <2>1, <2>2, <2>3, WakeAndYieldType, ReturnType
<1>10. ASSUME NEW t \in Tasks, Refuse(t) PROVE TypeOK'
  BY <1>10, ReturnType DEF Refuse
<1>11. ASSUME NEW t \in Tasks, Wait(t) PROVE TypeOK'
  BY <1>11 DEF Wait
<1>12. ASSUME NEW t \in Tasks, SuspendAll(t) PROVE TypeOK'
  BY <1>12 DEF SuspendAll
<1>13. ASSUME NEW t \in Tasks, LockQueue(t) PROVE TypeOK'
  BY <1>13 DEF LockQueue, queueUNLOCKED, queueLOCKED_UNMODIFIED
<1>14. ASSUME NEW t \in Tasks, CheckForTimeOut(t) PROVE TypeOK'
  <2>1. /\ pc' \in [Tasks -> {"app", "try", "suspend", "lock", "check", "test", "place",
                              "unlockTx", "unlockRx", "resume", "unwind", "yield",
                              "woken", "verdict", "delay", "reset"}]
        /\ why' \in [Tasks -> {"none", "block", "retry", "expired"}]
    <3>1. CASE Expired(t)
      BY <1>14, <3>1, ZenonT(30) DEF CheckForTimeOut
    <3>2. CASE ~Expired(t)
      BY <1>14, <3>2, ZenonT(30) DEF CheckForTimeOut
    <3> QED
      BY <3>1, <3>2
  <2>2. ticks' \in [Tasks -> 0 .. portMAX_DELAY]
    <3>1. Passed(t) \in 0 .. portMAX_DELAY
      BY TickArithmetic DEF Passed
    <3>2. CASE ticks' = ticks
      BY <3>2
    <3>3. CASE ~Expired(t) /\ ticks' = [ticks EXCEPT ![t] = @ - Passed(t)] /\ ticks[t] # portMAX_DELAY
      <4>1. ticks[t] - Passed(t) \in 0 .. portMAX_DELAY
        <5>1. ~(Passed(t) >= ticks[t])
          BY <3>3, Zenon DEF Expired
        <5> QED
          BY <3>1, <5>1 DEF portMAX_DELAY
      <4> QED
        BY <3>3, <4>1
    <3> QED
      BY <1>14, <3>2, <3>3 DEF CheckForTimeOut
  <2>3. timeOut' \in [Tasks -> [time : 0 .. portMAX_DELAY, wrapped : BOOLEAN]]
    <3>1. CASE timeOut' = timeOut
      BY <3>1
    <3>2. CASE timeOut' = [timeOut EXCEPT ![t] = [time |-> tick, wrapped |-> FALSE]]
      BY <3>2
    <3> QED
      BY <1>14, <3>1, <3>2 DEF CheckForTimeOut
  <2> QED
    BY <1>14, <2>1, <2>2, <2>3 DEF CheckForTimeOut
<1>15. ASSUME NEW t \in Tasks, TestAgain(t) PROVE TypeOK'
  BY <1>15 DEF TestAgain
<1>16. ASSUME NEW t \in Tasks, Place(t) PROVE TypeOK'
  <2>1. \E forever \in BOOLEAN : AddToDelayed(t, ticks[t], forever)
    BY <1>16 DEF Place
  <2>2. /\ list' \in [Tasks -> {"ready", "delayed", "overflow", "suspended"}]
        /\ wake' \in [Tasks -> 0 .. portMAX_DELAY]
        /\ nextUnblock' \in 0 .. portMAX_DELAY
    BY <2>1, AddToDelayedType
  <2>3. event' \in [Tasks -> {"none", "send", "recv", "pending"}]
    BY <1>16, ZenonT(30) DEF Place, CallAt
  <2>4. pc' \in [Tasks -> {"app", "try", "suspend", "lock", "check", "test", "place",
                              "unlockTx", "unlockRx", "resume", "unwind", "yield",
                              "woken", "verdict", "delay", "reset"}]
    <3>1. pc' = [pc EXCEPT ![t] = "resume"] \/ pc' = [pc EXCEPT ![t] = "unlockTx"]
      BY <1>16, Zenon DEF Place
    <3> QED
      BY <3>1
  <2>5. UNCHANGED <<current, tick, pendedTicks, schedSuspended, yieldPending,
                    queueVars, callVars>>
    BY <1>16 DEF Place
  <2> QED
    BY <2>2, <2>3, <2>4, <2>5
<1>17. ASSUME NEW t \in Tasks, UnlockTx(t) \/ UnlockRx(t) PROVE TypeOK'
  <2>1. PICK q \in {"send", "recv"}, n \in Int : WakeMany(q, n)
    BY <1>17 DEF UnlockTx, UnlockRx, queueUNLOCKED
  <2>2. event' \in [Tasks -> {"none", "send", "recv", "pending"}]
    BY <2>1 DEF WakeMany
  <2>3. yieldPending' \in BOOLEAN
    BY <2>1, Zenon DEF WakeMany
  <2> QED
    BY <1>17, <2>2, <2>3, SMTT(30) DEF UnlockTx, UnlockRx, queueUNLOCKED
<1>18. ASSUME NEW t \in Tasks, ResumeAll(t) PROVE TypeOK'
  <2>1. nextUnblock' \in 0 .. portMAX_DELAY
    BY <1>18, FirstWakeIsFirst DEF ResumeAll
  <2>2. yieldPending' \in BOOLEAN
    BY <1>18, Zenon DEF ResumeAll
  <2> QED
    BY <1>18, <2>1, <2>2, MakeReadyType DEF ResumeAll
<1>19. ASSUME NEW t \in Tasks, UnwindTick(t) PROVE TypeOK'
  <2>1. yieldPending' \in BOOLEAN
    BY <1>19, Zenon DEF UnwindTick, SwitchRequired
  <2> QED
    BY <1>19, <2>1, CountTickType DEF UnwindTick
<1>20. ASSUME NEW t \in Tasks, Resumed(t) PROVE TypeOK'
  <2>1. current' \in Tasks /\ yieldPending' \in BOOLEAN
    BY <1>20, SwitchType DEF Resumed
  <2>2. UNCHANGED <<listVars, tickVars, pendedTicks, schedSuspended, queueVars>>
    BY <1>20 DEF Resumed
  <2>3. \/ Return(t) \/ Continue(t)
        \/ (Goto(t, "verdict") \/ Goto(t, "yield")) /\ UNCHANGED callVars
    BY <1>20 DEF Resumed
  <2>4. CASE Return(t)
    BY <2>1, <2>2, <2>4, ReturnType
  <2>5. CASE Continue(t)
    BY <2>1, <2>2, <2>5, ContinueType
  <2>6. CASE (Goto(t, "verdict") \/ Goto(t, "yield")) /\ UNCHANGED callVars
    BY <2>1, <2>2, <2>6, ZenonT(30)
  <2> QED
    BY <2>3, <2>4, <2>5, <2>6
<1>21. ASSUME NEW t \in Tasks, Yield(t) PROVE TypeOK'
  BY <1>21, SwitchType, ContinueType DEF Yield
<1>22. ASSUME NEW t \in Tasks, Woken(t) \/ Verdict(t) PROVE TypeOK'
  BY <1>22, ReturnType, ContinueType DEF Woken, Verdict
<1>23. ASSUME NEW t \in Tasks, ResetUnblock(t) PROVE TypeOK'
  BY <1>23, FirstWakeIsFirst DEF ResetUnblock
<1>24. CASE UNCHANGED vars
  BY <1>24 DEF vars
<1> QED
  BY <1>1, <1>2, <1>3, <1>4, <1>5, <1>6, <1>7, <1>8, <1>9, <1>10, <1>11, <1>12, <1>13, <1>14,
     <1>15, <1>16, <1>17, <1>18, <1>19, <1>20, <1>21, <1>22, <1>23, <1>24 DEF Next, Ask, Step


-----------------------------------------------------------------------------
(* Where the tasks are, and which lists hold them.                         *)

Control == OneSuspends /\ CallAt /\ WhyAt /\ Blocked /\ NoneStranded

\* What a wake-up, a tick or xTaskResumeAll() may do to the lists that hold t:
\* nothing, or move it from one delayed list to the other; put it on the
\* pending list; or make it ready, waiting for no event.
Eased(t) ==
  \/ /\ event'[t] = event[t]
     /\ list'[t] = list[t] \/ {list[t], list'[t]} \subseteq {"delayed", "overflow"}
  \/ event[t] # "none" /\ event'[t] = "pending" /\ list'[t] = list[t]
  \/ event'[t] = "none" /\ list'[t] = "ready"

LEMMA EasedFacts ==
  ASSUME NEW t, Eased(t)
  PROVE  /\ list'[t] # "ready" => list[t] # "ready"
         /\ list'[t] = "suspended" => /\ list[t] = "suspended"
                                      /\ event'[t] = "none" => event[t] = "none"
         /\ event'[t] # "none" => event[t] # "none"
         /\ event'[t] # "none" /\ list'[t] = "ready" => list[t] = "ready"
<1>1. CASE list'[t] = list[t]
  BY <1>1 DEF Eased
<1>2. CASE {list[t], list'[t]} \subseteq {"delayed", "overflow"}
  <2>1. list[t] \in {"delayed", "overflow"} /\ list'[t] \in {"delayed", "overflow"}
    BY <1>2
  <2> QED
    BY <2>1 DEF Eased
<1>3. CASE event'[t] = "none" /\ list'[t] = "ready"
  BY <1>3
<1> QED
  BY <1>1, <1>2, <1>3 DEF Eased

\* Easing the tasks leaves no task stranded, nor one blocked where it may not be;
\* whoever loses the processor to it was not about to block.
LEMMA EasedStranded ==
  ASSUME NoneStranded, \A t \in Tasks : Eased(t), call' = call
  PROVE  NoneStranded'
BY EasedFacts DEF NoneStranded

LEMMA EasedBlocked ==
  ASSUME Blocked, \A t \in Tasks : Eased(t), pc' = pc, why' = why,
         \/ current' = current
         \/ pc[current] \notin Serving /\ list'[current'] = "ready"
  PROVE  Blocked'
BY EasedFacts DEF Blocked

LEMMA UnblockEases ==
  ASSUME TypeOK, NEW u \in Tasks, event[u] # "none", Unblock(u)
  PROVE  \A t \in Tasks : Eased(t)
BY DEF Unblock, MakeReady, Eased, TypeOK

LEMMA WakeLaterEases ==
  ASSUME TypeOK, NEW q \in {"send", "recv"}, WakeLater(q)
  PROVE  \A t \in Tasks : Eased(t)
<1>1. CASE Awaiting(q) = {}
  BY <1>1 DEF WakeLater, listVars, Eased
<1>2. CASE Awaiting(q) # {}
  <2>1. PICK u \in Tasks : Unblock(u) /\ event[u] = q
    BY <1>2 DEF WakeLater, FirstOf, Awaiting
  <2> QED
    BY <2>1, UnblockEases
<1> QED
  BY <1>1, <1>2

\* Who gets the processor is ready.
LEMMA SwitchToReady ==
  ASSUME SwitchContext
  PROVE  current' \in Tasks /\ list'[current'] = "ready"
BY DEF SwitchContext, FirstOf

LEMMA WakeAndYieldEases ==
  ASSUME TypeOK, NEW q \in {"send", "recv"}, WakeAndYield(q)
  PROVE  /\ \A t \in Tasks : Eased(t)
         /\ current' = current \/ (current' \in Tasks /\ list'[current'] = "ready")
<1>1. CASE Awaiting(q) = {}
  BY <1>1 DEF WakeAndYield, listVars, Eased
<1>2. CASE Awaiting(q) # {}
  <2>1. PICK u \in Tasks : /\ Unblock(u) /\ event[u] = q
                           /\ \/ SwitchContext
                              \/ UNCHANGED <<current, yieldPending>>
    BY <1>2 DEF WakeAndYield, FirstOf, Awaiting
  <2> QED
    BY <2>1, UnblockEases, SwitchToReady
<1> QED
  BY <1>1, <1>2

LEMMA WakeManyEases ==
  ASSUME TypeOK, NEW q \in {"send", "recv"}, NEW n, WakeMany(q, n), UNCHANGED list
  PROVE  \A t \in Tasks : Eased(t)
BY DEF WakeMany, Awaiting, Eased, TypeOK

LEMMA CountTickEases ==
  ASSUME TypeOK, CountTick
  PROVE  \A t \in Tasks : Eased(t)
<1> DEFINE now == Plus(tick, 1)
           lists == IF now = 0 THEN Swapped ELSE list
<1>1. PICK due \in SUBSET Tasks :
        /\ MakeReady(due, lists)
        /\ event' = [t \in Tasks |-> IF t \in due THEN "none" ELSE event[t]]
  BY DEF CountTick
<1>2. \A t \in Tasks : \/ lists[t] = list[t]
                        \/ {list[t], lists[t]} \subseteq {"delayed", "overflow"}
  BY DEF Swapped, TypeOK
<1> HIDE DEF lists
<1> QED
  BY <1>1, <1>2 DEF MakeReady, Eased

LEMMA ResumeAllEases ==
  ASSUME TypeOK, NEW t \in Tasks, ResumeAll(t)
  PROVE  \A u \in Tasks : Eased(u)
BY DEF ResumeAll, MakeReady, Awaiting, Eased, TypeOK

LEMMA InitControl == Init => Control
<1> SUFFICES ASSUME Init PROVE Control
  OBVIOUS
<1> USE DEF Init, FirstOf
<1>1. OneSuspends
  BY DEF OneSuspends, Held
<1>2. CallAt /\ WhyAt
  BY DEF CallAt, WhyAt, Serving
<1>3. Blocked /\ NoneStranded
  BY DEF Blocked, NoneStranded
<1> QED
  BY <1>1, <1>2, <1>3 DEF Control

LEMMA ControlStep == TypeOK /\ TypeOK' /\ Control /\ [Next]_vars => Control'
<1> SUFFICES ASSUME TypeOK, TypeOK', Control, [Next]_vars PROVE Control'
  OBVIOUS
<1> USE DEF Control, listVars, tickVars, queueVars, callVars, At, Goto
<1>1. CASE TickInterrupt
  <2>1. \A t \in Tasks : Eased(t)
    BY <1>1, CountTickEases DEF TickInterrupt
  <2>2. current' = current \/ (current' \in Tasks /\ list'[current'] = "ready")
    BY <1>1, SwitchToReady DEF TickInterrupt
  <2>3. pc[current] \notin Serving
    BY <1>1 DEF TickInterrupt, InterruptsOn, OneSuspends, Held, Serving
  <2>10. OneSuspends'
    BY <1>1, <2>1, <2>2 DEF TypeOK, OneSuspends, Held, TickInterrupt, InterruptsOn
  <2>11. CallAt'
    BY <1>1, <2>1, <2>2 DEF TypeOK, CallAt, TickInterrupt, InterruptsOn
  <2>12. WhyAt'
    BY <1>1, <2>1, <2>2 DEF TypeOK, WhyAt, CallAt, Serving, TickInterrupt, InterruptsOn
  <2>13. Blocked'
    BY <1>1, <2>1, <2>2, <2>3, EasedBlocked DEF TickInterrupt
  <2>14. NoneStranded'
    BY <1>1, <2>1, <2>2, <2>3, EasedStranded DEF TickInterrupt
  <2> QED
    BY <2>10, <2>11, <2>12, <2>13, <2>14
<1>2. CASE TickPended
  <2>10. OneSuspends'
    BY <1>2 DEF TypeOK, OneSuspends, Held, TickPended
  <2>11. CallAt'
    BY <1>2 DEF TypeOK, CallAt, TickPended
  <2>12. WhyAt'
    BY <1>2 DEF TypeOK, WhyAt, CallAt, Serving, TickPended
  <2>13. Blocked'
    BY <1>2 DEF TypeOK, Blocked, WhyAt, CallAt, OneSuspends, Held, Serving, Eased, TickPended
  <2>14. NoneStranded'
    BY <1>2 DEF TypeOK, NoneStranded, Blocked, WhyAt, CallAt, Serving, Eased, TickPended
  <2> QED
    BY <2>10, <2>11, <2>12, <2>13, <2>14
<1>3. CASE SendFromISR
  <2>1. \A t \in Tasks : Eased(t)
    <3>1. CASE WakeLater("recv")
      BY <3>1, WakeLaterEases
    <3>2. CASE UNCHANGED listVars
      BY <3>2 DEF Eased
    <3> QED
      BY <1>3, <3>1, <3>2 DEF SendFromISR
  <2>10. OneSuspends'
    BY <1>3, <2>1 DEF TypeOK, OneSuspends, Held, SendFromISR
  <2>11. CallAt'
    BY <1>3, <2>1 DEF TypeOK, CallAt, SendFromISR
  <2>12. WhyAt'
    BY <1>3, <2>1 DEF TypeOK, WhyAt, CallAt, Serving, SendFromISR
  <2>13. Blocked'
    BY <1>3, <2>1, EasedBlocked DEF SendFromISR
  <2>14. NoneStranded'
    BY <1>3, <2>1, EasedStranded DEF SendFromISR
  <2> QED
    BY <2>10, <2>11, <2>12, <2>13, <2>14
<1>4. CASE ReceiveFromISR
  <2>1. \A t \in Tasks : Eased(t)
    <3>1. CASE WakeLater("send")
      BY <3>1, WakeLaterEases
    <3>2. CASE UNCHANGED listVars
      BY <3>2 DEF Eased
    <3> QED
      BY <1>4, <3>1, <3>2 DEF ReceiveFromISR
  <2>10. OneSuspends'
    BY <1>4, <2>1 DEF TypeOK, OneSuspends, Held, ReceiveFromISR
  <2>11. CallAt'
    BY <1>4, <2>1 DEF TypeOK, CallAt, ReceiveFromISR
  <2>12. WhyAt'
    BY <1>4, <2>1 DEF TypeOK, WhyAt, CallAt, Serving, ReceiveFromISR
  <2>13. Blocked'
    BY <1>4, <2>1, EasedBlocked DEF ReceiveFromISR
  <2>14. NoneStranded'
    BY <1>4, <2>1, EasedStranded DEF ReceiveFromISR
  <2> QED
    BY <2>10, <2>11, <2>12, <2>13, <2>14
<1>5. ASSUME NEW t \in Tasks, CallQueue(t) \/ CallDelay(t) PROVE Control'
  <2>10. OneSuspends'
    BY <1>5 DEF TypeOK, OneSuspends, Held, CallQueue, CallDelay, Begin
  <2>11. CallAt'
    <3>1. PICK kind \in {"send", "recv", "delay"}, where \in {"try", "delay"} :
            /\ current = t /\ pc' = [pc EXCEPT ![t] = where]
            /\ call' = [call EXCEPT ![t] = kind]
            /\ where = "delay" <=> kind = "delay"
      BY <1>5 DEF CallQueue, CallDelay, Begin
    <3> QED
      BY <3>1 DEF CallAt, TypeOK
  <2>12. WhyAt'
    BY <1>5 DEF TypeOK, WhyAt, CallAt, Serving, CallQueue, CallDelay, Begin
  <2>13. Blocked'
    BY <1>5 DEF TypeOK, Blocked, WhyAt, CallAt, OneSuspends, Held, Serving, Eased, CallQueue, CallDelay, Begin
  <2>14. NoneStranded'
    BY <1>5 DEF TypeOK, NoneStranded, Blocked, WhyAt, CallAt, Serving, Eased, CallQueue, CallDelay, Begin
  <2> QED
    BY <2>10, <2>11, <2>12, <2>13, <2>14
<1>6. ASSUME NEW t \in Tasks, Stop(t) PROVE Control'
  <2>10. OneSuspends'
    BY <1>6 DEF TypeOK, OneSuspends, Held, Stop
  <2>11. CallAt'
    BY <1>6 DEF TypeOK, CallAt, Stop
  <2>12. WhyAt'
    BY <1>6 DEF TypeOK, WhyAt, CallAt, Serving, Stop
  <2>13. Blocked'
    BY <1>6 DEF TypeOK, Blocked, WhyAt, CallAt, OneSuspends, Held, Serving, Eased, Stop
  <2>14. NoneStranded'
    BY <1>6 DEF TypeOK, NoneStranded, Blocked, WhyAt, CallAt, Serving, Eased, Stop
  <2> QED
    BY <2>10, <2>11, <2>12, <2>13, <2>14
<1>7. ASSUME NEW t \in Tasks, NEW u \in Tasks, Resume(t, u) PROVE Control'
  <2>1. \A v \in Tasks : Eased(v)
    BY <1>7 DEF Resume, MakeReady, Eased, TypeOK
  <2>2. current' = current \/ (current' \in Tasks /\ list'[current'] = "ready")
    BY <1>7, SwitchToReady DEF Resume
  <2>10. OneSuspends'
    BY <1>7, <2>1, <2>2 DEF TypeOK, OneSuspends, Held, Resume
  <2>11. CallAt'
    BY <1>7, <2>1, <2>2 DEF TypeOK, CallAt, Resume
  <2>12. WhyAt'
    BY <1>7, <2>1, <2>2 DEF TypeOK, WhyAt, CallAt, Serving, Resume
  <2>13. Blocked'
    BY <1>7, <2>1, <2>2 DEF TypeOK, Blocked, WhyAt, CallAt, OneSuspends, Held, Serving, Eased, Resume
  <2>14. NoneStranded'
    BY <1>7, <2>1, <2>2 DEF TypeOK, NoneStranded, Blocked, WhyAt, CallAt, Serving, Eased, Resume
  <2> QED
    BY <2>10, <2>11, <2>12, <2>13, <2>14
<1>8. ASSUME NEW t \in Tasks, Succeed(t) PROVE Control'
  <2>1. /\ current = t /\ pc[t] = "try" /\ Return(t)
        /\ \E q \in {"send", "recv"} : WakeAndYield(q)
        /\ UNCHANGED schedSuspended
    BY <1>8 DEF Succeed
  <2>2. /\ \A u \in Tasks : Eased(u)
        /\ current' = current \/ (current' \in Tasks /\ list'[current'] = "ready")
    BY <2>1, WakeAndYieldEases
  <2>3. list[t] = "ready" /\ event[t] = "none"
    BY <2>1 DEF Blocked, NoneStranded, Serving
  <2>4. list'[t] = "ready" /\ event'[t] = "none"
    BY <2>2, <2>3, EasedFacts
  <2>10. OneSuspends'
    BY <1>8, <2>1, <2>2 DEF TypeOK, OneSuspends, Held, Return
  <2>11. CallAt'
    BY <1>8, <2>1, <2>2 DEF TypeOK, CallAt, Return
  <2>12. WhyAt'
    BY <1>8, <2>1, <2>2 DEF TypeOK, WhyAt, CallAt, Serving, Return
  <2>13. Blocked'
    <3>1. \A u \in Tasks : list'[u] # "ready" => list[u] # "ready"
      BY <2>2, EasedFacts
    <3> QED
      BY <2>1, <2>2, <2>4, <3>1 DEF Blocked, Return, TypeOK
  <2>14. NoneStranded'
    <3>1. ASSUME NEW u \in Tasks, u # t
          PROVE  /\ list'[u] = "suspended" /\ call'[u] # "stop" => event'[u] # "none"
                 /\ event'[u] # "none" => list'[u] # "ready" /\ call'[u] \in {"send", "recv"}
      <4>1. call'[u] = call[u] /\ Eased(u)
        BY <2>1, <2>2, <3>1 DEF Return, TypeOK
      <4> QED
        BY <4>1, EasedFacts DEF NoneStranded
    <3> QED
      BY <2>4, <3>1 DEF NoneStranded
  <2> QED
    BY <2>10, <2>11, <2>12, <2>13, <2>14
<1>9. ASSUME NEW t \in Tasks, Refuse(t) PROVE Control'
  <2>10. OneSuspends'
    BY <1>9 DEF TypeOK, OneSuspends, Held, Refuse, Return
  <2>11. CallAt'
    BY <1>9 DEF TypeOK, CallAt, Refuse, Return
  <2>12. WhyAt'
    BY <1>9 DEF TypeOK, WhyAt, CallAt, Serving, Refuse, Return
  <2>13. Blocked'
    BY <1>9 DEF TypeOK, Blocked, WhyAt, CallAt, OneSuspends, Held, Serving, Eased, Refuse, Return
  <2>14. NoneStranded'
    <3>1. event[t] = "none" /\ list[t] = "ready"
      BY <1>9 DEF Refuse, Blocked, NoneStranded, Serving
    <3> QED
      BY <1>9, <3>1 DEF Refuse, Return, NoneStranded, TypeOK
  <2> QED
    BY <2>10, <2>11, <2>12, <2>13, <2>14
<1>10. ASSUME NEW t \in Tasks, Wait(t) PROVE Control'
  <2>10. OneSuspends'
    BY <1>10 DEF TypeOK, OneSuspends, Held, Wait
  <2>11. CallAt'
    BY <1>10 DEF TypeOK, CallAt, Wait
  <2>12. WhyAt'
    BY <1>10 DEF TypeOK, WhyAt, CallAt, Serving, Wait
  <2>13. Blocked'
    BY <1>10 DEF TypeOK, Blocked, WhyAt, CallAt, OneSuspends, Held, Serving, Eased, Wait
  <2>14. NoneStranded'
    BY <1>10 DEF TypeOK, NoneStranded, Blocked, WhyAt, CallAt, Serving, Eased, Wait
  <2> QED
    BY <2>10, <2>11, <2>12, <2>13, <2>14
<1>11. ASSUME NEW t \in Tasks, SuspendAll(t) PROVE Control'
  <2>10. OneSuspends'
    BY <1>11 DEF TypeOK, OneSuspends, Held, SuspendAll
  <2>11. CallAt'
    BY <1>11 DEF TypeOK, CallAt, SuspendAll
  <2>12. WhyAt'
    BY <1>11 DEF TypeOK, WhyAt, CallAt, Serving, SuspendAll
  <2>13. Blocked'
    BY <1>11 DEF TypeOK, Blocked, WhyAt, CallAt, OneSuspends, Held, Serving, Eased, SuspendAll
  <2>14. NoneStranded'
    BY <1>11 DEF TypeOK, NoneStranded, Blocked, WhyAt, CallAt, Serving, Eased, SuspendAll
  <2> QED
    BY <2>10, <2>11, <2>12, <2>13, <2>14
<1>12. ASSUME NEW t \in Tasks, LockQueue(t) PROVE Control'
  <2>10. OneSuspends'
    BY <1>12 DEF TypeOK, OneSuspends, Held, LockQueue
  <2>11. CallAt'
    BY <1>12 DEF TypeOK, CallAt, LockQueue
  <2>12. WhyAt'
    BY <1>12 DEF TypeOK, WhyAt, CallAt, Serving, LockQueue
  <2>13. Blocked'
    BY <1>12 DEF TypeOK, Blocked, WhyAt, CallAt, OneSuspends, Held, Serving, Eased, LockQueue
  <2>14. NoneStranded'
    BY <1>12 DEF TypeOK, NoneStranded, Blocked, WhyAt, CallAt, Serving, Eased, LockQueue
  <2> QED
    BY <2>10, <2>11, <2>12, <2>13, <2>14
<1>13. ASSUME NEW t \in Tasks, CheckForTimeOut(t) PROVE Control'
  <2>10. OneSuspends'
    BY <1>13 DEF TypeOK, OneSuspends, Held, CheckForTimeOut
  <2>11. CallAt'
    BY <1>13 DEF TypeOK, CallAt, CheckForTimeOut
  <2>12. WhyAt'
    <3>1. CASE Expired(t)
      <4>1. /\ pc[t] = "check" /\ pc' = [pc EXCEPT ![t] = "unlockTx"]
            /\ why' = [why EXCEPT ![t] = "expired"] /\ call' = call
        BY <1>13, <3>1 DEF CheckForTimeOut
      <4> QED
        BY <4>1 DEF TypeOK, WhyAt, CallAt, Serving
    <3>2. CASE ~Expired(t)
      BY <1>13, <3>2 DEF TypeOK, WhyAt, CallAt, Serving, CheckForTimeOut
    <3> QED
      BY <3>1, <3>2
  <2>13. Blocked'
    BY <1>13 DEF TypeOK, Blocked, WhyAt, CallAt, OneSuspends, Held, Serving, Eased, CheckForTimeOut
  <2>14. NoneStranded'
    BY <1>13 DEF TypeOK, NoneStranded, Blocked, WhyAt, CallAt, Serving, Eased, CheckForTimeOut
  <2> QED
    BY <2>10, <2>11, <2>12, <2>13, <2>14
<1>14. ASSUME NEW t \in Tasks, TestAgain(t) PROVE Control'
  <2>10. OneSuspends'
    BY <1>14 DEF TypeOK, OneSuspends, Held, TestAgain
  <2>11. CallAt'
    BY <1>14 DEF TypeOK, CallAt, TestAgain
  <2>12. WhyAt'
    BY <1>14 DEF TypeOK, WhyAt, CallAt, Serving, TestAgain
  <2>13. Blocked'
    BY <1>14 DEF TypeOK, Blocked, WhyAt, CallAt, OneSuspends, Held, Serving, Eased, TestAgain
  <2>14. NoneStranded'
    BY <1>14 DEF TypeOK, NoneStranded, Blocked, WhyAt, CallAt, Serving, Eased, TestAgain
  <2> QED
    BY <2>10, <2>11, <2>12, <2>13, <2>14
<1>15. ASSUME NEW t \in Tasks, Place(t) PROVE Control'
  <2>10. OneSuspends'
    BY <1>15 DEF TypeOK, OneSuspends, Held, Place, AddToDelayed
  <2>11. CallAt'
    BY <1>15 DEF TypeOK, CallAt, Place, AddToDelayed
  <2>12. WhyAt'
    BY <1>15 DEF TypeOK, WhyAt, CallAt, Serving, Place, AddToDelayed
  <2>13. Blocked'
    BY <1>15 DEF TypeOK, Blocked, WhyAt, CallAt, OneSuspends, Held, Serving, Eased, Place, AddToDelayed
  <2>14. NoneStranded'
    BY <1>15 DEF TypeOK, NoneStranded, Blocked, WhyAt, CallAt, Serving, Eased, Place, AddToDelayed
  <2> QED
    BY <2>10, <2>11, <2>12, <2>13, <2>14
<1>16. ASSUME NEW t \in Tasks, UnlockTx(t) PROVE Control'
  <2>1. \A u \in Tasks : Eased(u)
    BY <1>16, WakeManyEases DEF UnlockTx
  <2>10. OneSuspends'
    BY <1>16, <2>1 DEF TypeOK, OneSuspends, Held, UnlockTx
  <2>11. CallAt'
    BY <1>16, <2>1 DEF TypeOK, CallAt, UnlockTx
  <2>12. WhyAt'
    BY <1>16, <2>1 DEF TypeOK, WhyAt, CallAt, Serving, UnlockTx
  <2>13. Blocked'
    BY <1>16, <2>1 DEF TypeOK, Blocked, WhyAt, CallAt, OneSuspends, Held, Serving, Eased, UnlockTx
  <2>14. NoneStranded'
    BY <1>16, <2>1 DEF TypeOK, NoneStranded, Blocked, WhyAt, CallAt, Serving, Eased, UnlockTx
  <2> QED
    BY <2>10, <2>11, <2>12, <2>13, <2>14
<1>17. ASSUME NEW t \in Tasks, UnlockRx(t) PROVE Control'
  <2>1. \A u \in Tasks : Eased(u)
    BY <1>17, WakeManyEases DEF UnlockRx
  <2>10. OneSuspends'
    BY <1>17, <2>1 DEF TypeOK, OneSuspends, Held, UnlockRx
  <2>11. CallAt'
    BY <1>17, <2>1 DEF TypeOK, CallAt, UnlockRx
  <2>12. WhyAt'
    BY <1>17, <2>1 DEF TypeOK, WhyAt, CallAt, Serving, UnlockRx
  <2>13. Blocked'
    BY <1>17, <2>1 DEF TypeOK, Blocked, WhyAt, CallAt, OneSuspends, Held, Serving, Eased, UnlockRx
  <2>14. NoneStranded'
    BY <1>17, <2>1 DEF TypeOK, NoneStranded, Blocked, WhyAt, CallAt, Serving, Eased, UnlockRx
  <2> QED
    BY <2>10, <2>11, <2>12, <2>13, <2>14
<1>18. ASSUME NEW t \in Tasks, ResumeAll(t) PROVE Control'
  <2>1. \A u \in Tasks : Eased(u)
    BY <1>18, ResumeAllEases
  <2>10. OneSuspends'
    BY <1>18, <2>1 DEF TypeOK, OneSuspends, Held, ResumeAll
  <2>11. CallAt'
    BY <1>18, <2>1 DEF TypeOK, CallAt, ResumeAll
  <2>12. WhyAt'
    BY <1>18, <2>1 DEF TypeOK, WhyAt, CallAt, Serving, ResumeAll
  <2>13. Blocked'
    BY <1>18, <2>1 DEF TypeOK, Blocked, WhyAt, CallAt, OneSuspends, Held, Serving, Eased, ResumeAll
  <2>14. NoneStranded'
    BY <1>18, <2>1, SMTT(30) DEF TypeOK, NoneStranded, Blocked, WhyAt, CallAt, Serving, Eased, ResumeAll
  <2> QED
    BY <2>10, <2>11, <2>12, <2>13, <2>14
<1>19. ASSUME NEW t \in Tasks, UnwindTick(t) PROVE Control'
  <2>1. \A u \in Tasks : Eased(u)
    BY <1>19, CountTickEases DEF UnwindTick
  <2>10. OneSuspends'
    BY <1>19, <2>1 DEF TypeOK, OneSuspends, Held, UnwindTick
  <2>11. CallAt'
    BY <1>19, <2>1 DEF TypeOK, CallAt, UnwindTick
  <2>12. WhyAt'
    BY <1>19, <2>1 DEF TypeOK, WhyAt, CallAt, Serving, UnwindTick
  <2>13. Blocked'
    BY <1>19, <2>1, EasedBlocked DEF UnwindTick
  <2>14. NoneStranded'
    BY <1>19, <2>1, EasedStranded DEF UnwindTick
  <2> QED
    BY <2>10, <2>11, <2>12, <2>13, <2>14
<1>20. ASSUME NEW t \in Tasks, Resumed(t) PROVE Control'
  <2>2. (current' = current /\ ~yieldPending) \/ (current' \in Tasks /\ list'[current'] = "ready")
    BY <1>20, SwitchToReady DEF Resumed
  <2>10. OneSuspends'
    <3>1. PICK where \in {"app", "verdict", "yield", "try", "woken"} : pc' = [pc EXCEPT ![t] = where]
      BY <1>20 DEF Resumed, Return, Continue
    <3>2. current = t /\ pc[t] = "unwind" /\ schedSuspended' = schedSuspended
      BY <1>20 DEF Resumed
    <3> QED
      BY <3>1, <3>2 DEF OneSuspends, Held, TypeOK
  <2>11. CallAt'
    BY <1>20, <2>2 DEF TypeOK, CallAt, Resumed, Return, Continue
  <2>12. WhyAt'
    BY <1>20, <2>2 DEF TypeOK, WhyAt, CallAt, Serving, Resumed, Return, Continue
  <2>13. Blocked'
    BY <1>20, <2>2 DEF TypeOK, Blocked, WhyAt, CallAt, OneSuspends, Held, Serving, Eased, Resumed, Return, Continue
  <2>14. NoneStranded'
    BY <1>20, <2>2 DEF TypeOK, NoneStranded, Blocked, WhyAt, CallAt, Serving, Eased, Resumed, Return, Continue
  <2> QED
    BY <2>10, <2>11, <2>12, <2>13, <2>14
<1>21. ASSUME NEW t \in Tasks, Yield(t) PROVE Control'
  <2>2. current' \in Tasks /\ list'[current'] = "ready"
    BY <1>21, SwitchToReady DEF Yield
  <2>10. OneSuspends'
    BY <1>21, <2>2 DEF TypeOK, OneSuspends, Held, Yield, Continue
  <2>11. CallAt'
    BY <1>21, <2>2 DEF TypeOK, CallAt, Yield, Continue
  <2>12. WhyAt'
    BY <1>21, <2>2 DEF TypeOK, WhyAt, CallAt, Serving, Yield, Continue
  <2>13. Blocked'
    BY <1>21, <2>2 DEF TypeOK, Blocked, WhyAt, CallAt, OneSuspends, Held, Serving, Eased, Yield, Continue
  <2>14. NoneStranded'
    BY <1>21, <2>2 DEF TypeOK, NoneStranded, Blocked, WhyAt, CallAt, Serving, Eased, Yield, Continue
  <2> QED
    BY <2>10, <2>11, <2>12, <2>13, <2>14
<1>22. ASSUME NEW t \in Tasks, Woken(t) PROVE Control'
  <2>10. OneSuspends'
    BY <1>22 DEF TypeOK, OneSuspends, Held, Woken, Return
  <2>11. CallAt'
    BY <1>22 DEF TypeOK, CallAt, Woken, Return
  <2>12. WhyAt'
    BY <1>22 DEF TypeOK, WhyAt, CallAt, Serving, Woken, Return
  <2>13. Blocked'
    BY <1>22 DEF TypeOK, Blocked, WhyAt, CallAt, OneSuspends, Held, Serving, Eased, Woken, Return
  <2>14. NoneStranded'
    BY <1>22 DEF TypeOK, NoneStranded, Blocked, WhyAt, CallAt, Serving, Eased, Woken, Return
  <2> QED
    BY <2>10, <2>11, <2>12, <2>13, <2>14
<1>23. ASSUME NEW t \in Tasks, Verdict(t) PROVE Control'
  <2>10. OneSuspends'
    BY <1>23 DEF TypeOK, OneSuspends, Held, Verdict, Return, Continue
  <2>11. CallAt'
    BY <1>23 DEF TypeOK, CallAt, Verdict, Return, Continue
  <2>12. WhyAt'
    <3>1. CASE Return(t)
      BY <1>23, <3>1 DEF TypeOK, WhyAt, CallAt, Serving, Verdict, Return, Continue
    <3>2. CASE Continue(t)
      BY <1>23, <3>2 DEF TypeOK, WhyAt, CallAt, Serving, Verdict, Return, Continue
    <3> QED
      BY <1>23, <3>1, <3>2 DEF Verdict
  <2>13. Blocked'
    BY <1>23 DEF TypeOK, Blocked, WhyAt, CallAt, OneSuspends, Held, Serving, Eased, Verdict, Return, Continue
  <2>14. NoneStranded'
    BY <1>23 DEF TypeOK, NoneStranded, Blocked, WhyAt, CallAt, Serving, Eased, Verdict, Return, Continue
  <2> QED
    BY <2>10, <2>11, <2>12, <2>13, <2>14
<1>24. ASSUME NEW t \in Tasks, ResetUnblock(t) PROVE Control'
  <2>10. OneSuspends'
    BY <1>24 DEF TypeOK, OneSuspends, Held, ResetUnblock
  <2>11. CallAt'
    BY <1>24 DEF TypeOK, CallAt, ResetUnblock
  <2>12. WhyAt'
    BY <1>24 DEF TypeOK, WhyAt, CallAt, Serving, ResetUnblock
  <2>13. Blocked'
    BY <1>24 DEF TypeOK, Blocked, WhyAt, CallAt, OneSuspends, Held, Serving, Eased, ResetUnblock
  <2>14. NoneStranded'
    BY <1>24 DEF TypeOK, NoneStranded, Blocked, WhyAt, CallAt, Serving, Eased, ResetUnblock
  <2> QED
    BY <2>10, <2>11, <2>12, <2>13, <2>14
<1>25. CASE UNCHANGED vars
  <2>10. OneSuspends'
    BY <1>25 DEF TypeOK, OneSuspends, Held, vars
  <2>11. CallAt'
    BY <1>25 DEF TypeOK, CallAt, vars
  <2>12. WhyAt'
    BY <1>25 DEF TypeOK, WhyAt, CallAt, Serving, vars
  <2>13. Blocked'
    BY <1>25 DEF TypeOK, Blocked, WhyAt, CallAt, OneSuspends, Held, Serving, Eased, vars
  <2>14. NoneStranded'
    BY <1>25 DEF TypeOK, NoneStranded, Blocked, WhyAt, CallAt, Serving, Eased, vars
  <2> QED
    BY <2>10, <2>11, <2>12, <2>13, <2>14
<1> QED
  BY <1>1, <1>2, <1>3, <1>4, <1>5, <1>6, <1>7, <1>8, <1>9, <1>10, <1>11, <1>12, <1>13, <1>14, <1>15, <1>16, <1>17, <1>18, <1>19, <1>20, <1>21, <1>22, <1>23, <1>24, <1>25 DEF Next, Ask, Step

-----------------------------------------------------------------------------
(* Priorities and the delayed lists.                                       *)

\* What a wake-up does to the list t's state item is in: nothing, or ready.
Kept(t) == list'[t] = "ready" \/ (list'[t] = list[t] /\ wake'[t] = wake[t])

LEMMA UnblockKeeps ==
  ASSUME TypeOK, NEW u \in Tasks, Unblock(u)
  PROVE  \A t \in Tasks : Kept(t) /\ (t # u => list'[t] = list[t])
BY DEF Unblock, MakeReady, Kept, TypeOK

\* The processor goes to a task of the highest priority that is ready.
LEMMA SwitchHeeds ==
  ASSUME SwitchContext
  PROVE  Heeded'
BY DEF SwitchContext, FirstOf, Heeded

LEMMA PrioIsNat == \A t \in Tasks : Prio[t] \in Nat
OBVIOUS

LEMMA WakeLaterHeeds ==
  ASSUME TypeOK, Heeded, NEW q, WakeLater(q), current' = current
  PROVE  Heeded' /\ \A t \in Tasks : Kept(t)
<1>1. CASE Awaiting(q) = {}
  BY <1>1 DEF WakeLater, listVars, Kept, Heeded
<1>2. CASE Awaiting(q) # {}
  <2>1. PICK u \in Tasks : /\ Unblock(u)
                           /\ yieldPending' = (yieldPending \/ Prio[u] > Prio[current])
    BY <1>2 DEF WakeLater, FirstOf, Awaiting
  <2>2. \A t \in Tasks : Kept(t) /\ (t # u => list'[t] = list[t])
    BY <2>1, UnblockKeeps
  <2>3. Prio[u] <= Prio[current] \/ Prio[u] > Prio[current]
    BY PrioIsNat DEF TypeOK
  <2>4. Heeded'
    BY <2>1, <2>2, <2>3, Zenon DEF Heeded
  <2> QED
    BY <2>2, <2>4
<1> QED
  BY <1>1, <1>2

LEMMA WakeAndYieldHeeds ==
  ASSUME TypeOK, Heeded, NEW q, WakeAndYield(q)
  PROVE  Heeded' /\ \A t \in Tasks : Kept(t)
<1>1. CASE Awaiting(q) = {}
  BY <1>1 DEF WakeAndYield, listVars, Kept, Heeded
<1>2. CASE Awaiting(q) # {}
  <2>1. PICK u \in Tasks : /\ Unblock(u)
                           /\ IF Prio[u] > Prio[current] THEN SwitchContext
                              ELSE UNCHANGED <<current, yieldPending>>
    BY <1>2 DEF WakeAndYield, FirstOf, Awaiting
  <2>2. \A t \in Tasks : Kept(t) /\ (t # u => list'[t] = list[t])
    BY <2>1, UnblockKeeps
  <2>3. Prio[u] <= Prio[current] \/ Prio[u] > Prio[current]
    BY PrioIsNat DEF TypeOK
  <2>4. CASE SwitchContext
    BY <2>2, <2>4, SwitchHeeds
  <2>5. CASE Prio[u] <= Prio[current] /\ UNCHANGED <<current, yieldPending>>
    BY <2>2, <2>5 DEF Heeded
  <2> QED
    BY <2>1, <2>2, <2>3, <2>4, <2>5
<1> QED
  BY <1>1, <1>2

\* A tick that makes a task ready of at least the running one's priority asks
\* for a switch.
LEMMA RequiredHeeds ==
  ASSUME TypeOK, Heeded, ~SwitchRequired, UNCHANGED current
  PROVE  \A t \in Tasks : list'[t] = "ready" => Prio[t] <= Prio[current]
<1>1. SUFFICES ASSUME NEW t \in Tasks, list'[t] = "ready" PROVE Prio[t] <= Prio[current]
  OBVIOUS
<1>2. ~yieldPending /\ (list[t] # "ready" => ~(Prio[t] >= Prio[current]))
  BY <1>1, Zenon DEF SwitchRequired
<1>3. CASE list[t] = "ready"
  BY <1>2, <1>3 DEF Heeded
<1>4. CASE list[t] # "ready"
  BY <1>2, <1>4, PrioIsNat DEF TypeOK
<1> QED
  BY <1>3, <1>4

LEMMA HeededStep == TypeOK /\ Heeded /\ [Next]_vars => Heeded'
<1> SUFFICES ASSUME TypeOK, Heeded, [Next]_vars PROVE Heeded'
  OBVIOUS
<1> USE DEF listVars, tickVars, queueVars, callVars
<1>1. CASE TickInterrupt
  <2>1. CASE SwitchContext
    BY <2>1, SwitchHeeds
  <2>2. CASE ~SwitchRequired /\ UNCHANGED <<current, yieldPending>>
    BY <2>2, RequiredHeeds DEF Heeded
  <2> QED
    BY <1>1, <2>1, <2>2 DEF TickInterrupt
<1>2. CASE SendFromISR
  BY <1>2, WakeLaterHeeds DEF SendFromISR, Heeded
<1>3. CASE ReceiveFromISR
  BY <1>3, WakeLaterHeeds DEF ReceiveFromISR, Heeded
<1>4. ASSUME NEW t \in Tasks, NEW u \in Tasks, Resume(t, u) PROVE Heeded'
  <2>1. current = t /\ MakeReady({u}, list)
    BY <1>4 DEF Resume, At
  <2>2. CASE SwitchContext
    BY <2>2, SwitchHeeds
  <2>3. CASE ~(Prio[u] >= Prio[t]) /\ UNCHANGED <<current, yieldPending>>
    BY <2>1, <2>3, PrioIsNat DEF MakeReady, Heeded
  <2> QED
    BY <1>4, <2>2, <2>3 DEF Resume
<1>5. ASSUME NEW t \in Tasks, Succeed(t) PROVE Heeded'
  BY <1>5, WakeAndYieldHeeds DEF Succeed
<1>6. ASSUME NEW t \in Tasks, Stop(t) \/ Place(t) PROVE Heeded'
  <2>1. \A u \in Tasks : list'[u] = "ready" => list[u] = "ready"
    BY <1>6 DEF Stop, Place, AddToDelayed, TypeOK
  <2>2. UNCHANGED <<current, yieldPending>>
    BY <1>6 DEF Stop, Place
  <2> QED
    BY <2>1, <2>2 DEF Heeded
<1>7. ASSUME NEW t \in Tasks, UnlockTx(t) \/ UnlockRx(t) PROVE Heeded'
  <2>1. PICK S \in SUBSET Tasks :
          yieldPending' = (yieldPending \/ \E u \in S : Prio[u] > Prio[current])
    BY <1>7 DEF UnlockTx, UnlockRx, WakeMany, Awaiting
  <2>2. UNCHANGED <<list, current>>
    BY <1>7 DEF UnlockTx, UnlockRx
  <2>3. yieldPending => yieldPending'
    BY <2>1, Zenon
  <2> QED
    BY <2>2, <2>3 DEF Heeded
<1>8. ASSUME NEW t \in Tasks, ResumeAll(t) PROVE Heeded'
  <2>1. /\ MakeReady(Awaiting("pending"), list) /\ current' = current
        /\ yieldPending' = (yieldPending \/ \E u \in Awaiting("pending") : Prio[u] >= Prio[current])
    BY <1>8 DEF ResumeAll
  <2>2. SUFFICES ASSUME NEW u \in Tasks, list'[u] = "ready"
                 PROVE  Prio[u] <= Prio[current] \/ yieldPending'
    BY <2>1 DEF Heeded
  <2>3. CASE u \in Awaiting("pending")
    <3>1. Prio[u] <= Prio[current] \/ Prio[u] >= Prio[current]
      BY PrioIsNat DEF TypeOK
    <3> QED
      BY <2>1, <2>3, <3>1, Zenon
  <2>4. CASE u \notin Awaiting("pending")
    <3>1. list[u] = "ready"
      BY <2>1, <2>2, <2>4 DEF MakeReady
    <3> QED
      BY <2>1, <3>1, Zenon DEF Heeded
  <2> QED
    BY <2>3, <2>4
<1>9. ASSUME NEW t \in Tasks, UnwindTick(t) PROVE Heeded'
  <2>1. yieldPending' = SwitchRequired /\ UNCHANGED current
    BY <1>9 DEF UnwindTick
  <2>2. CASE SwitchRequired
    BY <2>1, <2>2 DEF Heeded
  <2>3. CASE ~SwitchRequired
    BY <2>1, <2>3, RequiredHeeds DEF Heeded
  <2> QED
    BY <2>2, <2>3
<1>10. ASSUME NEW t \in Tasks, Resumed(t) \/ Yield(t) PROVE Heeded'
  <2>1. CASE SwitchContext
    BY <2>1, SwitchHeeds
  <2>2. CASE UNCHANGED <<current, yieldPending>>
    BY <1>10, <2>2 DEF Resumed, Yield, Heeded
  <2> QED
    BY <1>10, <2>1, <2>2 DEF Resumed, Yield
<1>11. CASE UNCHANGED <<list, current, yieldPending>>
  BY <1>11 DEF Heeded
<1>12. ASSUME NEW t \in Tasks,
              \/ CallQueue(t) \/ CallDelay(t) \/ Refuse(t) \/ Wait(t) \/ SuspendAll(t)
              \/ LockQueue(t) \/ CheckForTimeOut(t) \/ TestAgain(t) \/ Woken(t)
              \/ Verdict(t) \/ ResetUnblock(t)
       PROVE  UNCHANGED <<list, current, yieldPending>>
  BY <1>12 DEF CallQueue, CallDelay, Begin, Refuse, Wait, SuspendAll, LockQueue,
               CheckForTimeOut, TestAgain, Woken, Verdict, ResetUnblock
<1>13. TickPended \/ UNCHANGED vars => UNCHANGED <<list, current, yieldPending>>
  BY DEF TickPended, vars
<1> QED
  BY <1>1, <1>2, <1>3, <1>4, <1>5, <1>6, <1>7, <1>8, <1>9, <1>10, <1>11, <1>12, <1>13
     DEF Next, Ask, Step

-----------------------------------------------------------------------------
(* Time.                                                                   *)

LEMMA MaxIsTick == portMAX_DELAY \in Nat \ {0} /\ TickRange = portMAX_DELAY + 1
BY DEF portMAX_DELAY

\* A task whose call and clock a step leaves alone keeps its times.
LEMMA Untouched ==
  ASSUME TypeOK, TypeOK', NEW t \in Tasks, TimesOf(t), Kept(t),
         tick' = tick, call'[t] = call[t], ticks'[t] = ticks[t], timed'[t] = timed[t],
         timeOut'[t] = timeOut[t], asked'[t] = asked[t], elapsed'[t] = elapsed[t],
         why'[t] \in {why[t], "none", "block", "retry"},
         \/ pc'[t] = pc[t]
         \/ pc'[t] = "place" /\ pc[t] = "test" /\ InCall(t)
         \/ pc'[t] = "place" /\ pc[t] = "delay" /\ call[t] = "delay"
         \/ /\ pc'[t] \notin {"delay", "test", "place"}
            /\ InCall(t) => timed[t] \/ pc'[t] = "try",
         nextUnblock' = nextUnblock \/ (list'[t] = "delayed" => nextUnblock' <= wake'[t])
  PROVE  TimesOf(t)'
<1> USE DEF TimesOf
<1>1. LimitOf(t)'
  BY DEF LimitOf, InCall
<1>2. ClockOf(t)'
  BY DEF ClockOf, LimitOf, Ran, InCall
<1>3. ExpiryOf(t)'
  BY DEF ExpiryOf
<1>4. SleepOf(t)'
  <2>1. CASE list'[t] = "ready"
    BY <2>1 DEF SleepOf
  <2>2. CASE list'[t] = list[t] /\ wake'[t] = wake[t]
    BY <2>2 DEF SleepOf, Timing
  <2> QED
    BY <2>1, <2>2 DEF Kept
<1> QED
  BY <1>1, <1>2, <1>3, <1>4

\* A call that is over leaves no clock behind.
LEMMA Returned ==
  ASSUME TypeOK, NEW t \in Tasks, Return(t), list'[t] = "ready"
  PROVE  TimesOf(t)'
<1>1. /\ ticks'[t] = 0 /\ asked'[t] = 0 /\ elapsed'[t] = 0 /\ timed'[t] = FALSE
      /\ call'[t] = "none" /\ why'[t] = "none" /\ pc'[t] = "app"
  BY DEF Return, Goto, TypeOK
<1> QED
  BY <1>1, MaxIsTick DEF TimesOf, LimitOf, ClockOf, ExpiryOf, SleepOf, InCall

LEMMA ReturnOthers ==
  ASSUME TypeOK, NEW t \in Tasks, Return(t), NEW u \in Tasks, u # t
  PROVE  /\ pc'[u] = pc[u] /\ call'[u] = call[u] /\ ticks'[u] = ticks[u]
         /\ timed'[u] = timed[u] /\ timeOut'[u] = timeOut[u] /\ why'[u] = why[u]
         /\ asked'[u] = asked[u] /\ elapsed'[u] = elapsed[u]
BY DEF Return, Goto, TypeOK

\* A tick, counted by the interrupt or afterwards.
LEMMA CountTickTimes ==
  ASSUME TypeOK, TypeOK', CountTick, \A t \in Tasks : TimesOf(t),
         UNCHANGED <<pc, call, ticks, timed, why, asked>>,
         NEW u \in Tasks, pc[u] \notin {"test", "place"},
         pc[u] = "delay" => list[u] = "ready" /\ call[u] = "delay"
  PROVE  TimesOf(u)'
<1> DEFINE now == Plus(tick, 1)
           lists == IF now = 0 THEN Swapped ELSE list
           asleep == {t \in Tasks : lists[t] = "delayed"}
           next == IF now = 0 THEN FirstWake(asleep) ELSE nextUnblock
           due == IF now >= next THEN {t \in asleep : wake[t] <= now} ELSE {}
<1>1. /\ tick' = now
      /\ MakeReady(due, lists)
      /\ nextUnblock' = IF now >= next THEN FirstWake(asleep \ due) ELSE next
      /\ timeOut' = [t \in Tasks |->
                      [timeOut[t] EXCEPT !.wrapped = @ \/ (timed[t] /\ now = 0)]]
      /\ elapsed' = [t \in Tasks |->
                      IF Timing(t) /\ elapsed[t] < Starved THEN elapsed[t] + 1
                      ELSE elapsed[t]]
  BY DEF CountTick
<1>2. /\ tick \in Nat /\ tick <= portMAX_DELAY /\ now \in Nat /\ now <= portMAX_DELAY
      /\ now = 0 => tick = portMAX_DELAY
      /\ now # 0 => now = tick + 1
  BY MaxIsTick DEF TypeOK, Plus
<1>3. /\ \A t \in asleep : next <= wake[t]
      /\ \A t \in asleep \ due : FirstWake(asleep \ due) <= wake[t]
      /\ next \in Nat
  <2>1. /\ \A t \in asleep : FirstWake(asleep) <= wake[t]
        /\ \A t \in asleep \ due : FirstWake(asleep \ due) <= wake[t]
        /\ FirstWake(asleep) \in 0 .. portMAX_DELAY
    BY FirstWakeIsFirst
  <2>2. now # 0 => \A t \in asleep : nextUnblock <= wake[t]
    BY DEF TimesOf, SleepOf
  <2>3. nextUnblock \in Nat
    BY MaxIsTick DEF TypeOK
  <2>4. FirstWake(asleep) \in Nat
    BY <2>1, MaxIsTick
  <2> HIDE DEF asleep, due
  <2>5. CASE now = 0
    BY <2>1, <2>4, <2>5
  <2>6. CASE now # 0
    BY <2>1, <2>2, <2>3, <2>6
  <2> QED
    BY <2>5, <2>6
<1>4. /\ lists[u] = "delayed" => list[u] = IF now = 0 THEN "overflow" ELSE "delayed"
      /\ lists[u] = "overflow" => list[u] = IF now = 0 THEN "delayed" ELSE "overflow"
      /\ lists[u] = "ready" <=> list[u] = "ready"
  BY DEF Swapped, TypeOK
<1>5. wake[u] \in Nat /\ wake[u] <= portMAX_DELAY
  BY MaxIsTick DEF TypeOK
<1>6. u \in asleep \ due => wake[u] > now
  BY <1>2, <1>3, <1>5
<1>7. u \in asleep \ due => nextUnblock' <= wake[u]
  BY <1>1, <1>3
<1>8. \/ list'[u] = "ready"
      \/ list'[u] = lists[u] /\ wake'[u] = wake[u] /\ u \notin due
  BY <1>1 DEF MakeReady
<1> HIDE DEF now, lists, next, due
<1>9. /\ elapsed'[u] = IF Timing(u) /\ elapsed[u] < Starved THEN elapsed[u] + 1 ELSE elapsed[u]
      /\ elapsed[u] \in Nat
  BY <1>1 DEF TypeOK, Starved
<1>10. LimitOf(u)'
  <2>1. ~timed[u] /\ call[u] # "delay" => ~Timing(u)
    BY DEF Timing
  <2>2. pc[u] = "delay" => ~Timing(u)
    BY DEF Timing, TimesOf, LimitOf, InCall
  <2>3. LimitOf(u)
    BY DEF TimesOf
  <2> QED
    BY <2>1, <2>2, <2>3, <1>9 DEF LimitOf, InCall
<1>11. ClockOf(u)'
  <2> SUFFICES ASSUME timed[u], ticks[u] # portMAX_DELAY, elapsed'[u] < Starved
               PROVE  /\ Ran(u)' >= 0
                      /\ timeOut'[u].wrapped => tick' + TickRange = timeOut'[u].time + Ran(u)'
                      /\ ~timeOut'[u].wrapped => tick' = timeOut'[u].time + Ran(u)'
    BY DEF ClockOf
  <2>1. elapsed[u] < Starved /\ elapsed'[u] = elapsed[u] + 1
    BY <1>9 DEF Timing, Starved
  <2>2. ticks[u] \in Nat /\ asked[u] \in Nat /\ ticks[u] <= asked[u]
    BY MaxIsTick DEF TypeOK, TimesOf, LimitOf
  <2>3. Ran(u)' = Ran(u) + 1 /\ Ran(u) \in Int /\ Ran(u) + 1 < TickRange
    BY <1>9, <2>1, <2>2 DEF Ran, Starved
  <2>4. /\ Ran(u) >= 0
        /\ timeOut[u].wrapped => tick + TickRange = timeOut[u].time + Ran(u)
        /\ ~timeOut[u].wrapped => tick = timeOut[u].time + Ran(u)
    BY <2>1 DEF TimesOf, ClockOf
  <2>5. timeOut[u].time \in Nat /\ timeOut[u].time <= portMAX_DELAY
    BY MaxIsTick DEF TypeOK
  <2>6. /\ timeOut'[u].time = timeOut[u].time
        /\ timeOut'[u].wrapped <=> timeOut[u].wrapped \/ now = 0
    <3> DEFINE w == timeOut[u].wrapped \/ (timed[u] /\ now = 0)
    <3>1. timeOut'[u] = [timeOut[u] EXCEPT !.wrapped = w]
      BY <1>1
    <3>2. timeOut[u] \in [time : 0 .. portMAX_DELAY, wrapped : BOOLEAN]
      BY DEF TypeOK
    <3>3. w <=> timeOut[u].wrapped \/ now = 0
      BY Zenon
    <3> HIDE DEF w
    <3>4. timeOut'[u].time = timeOut[u].time /\ timeOut'[u].wrapped = w
      BY <3>1, <3>2
    <3> QED
      BY <3>3, <3>4, Zenon
  <2>7. CASE now = 0
    <3>1. ~timeOut[u].wrapped
      BY <1>2, <2>3, <2>4, <2>5, <2>7, MaxIsTick
    <3>2. timeOut'[u].wrapped
      BY <2>6, <2>7, Zenon
    <3>3. tick = timeOut[u].time + Ran(u)
      BY <2>4, <3>1, Zenon
    <3>4. tick' + TickRange = timeOut'[u].time + Ran(u)' /\ Ran(u)' >= 0
      BY <1>1, <1>2, <2>3, <2>4, <2>5, <2>6, <2>7, <3>3, MaxIsTick
    <3> QED
      BY <3>2, <3>4, Zenon
  <2>8. CASE now # 0
    <3>1. timeOut'[u].wrapped <=> timeOut[u].wrapped
      BY <2>6, <2>8, Zenon
    <3>5. tick' = tick + 1 /\ timeOut'[u].time = timeOut[u].time
      BY <1>1, <1>2, <2>6, <2>8
    <3>6. tick \in Nat /\ timeOut[u].time \in Nat /\ TickRange \in Nat
      BY <1>2, <2>5
    <3>2. timeOut[u].wrapped => tick' + TickRange = timeOut'[u].time + Ran(u)'
      <4>1. SUFFICES ASSUME tick + TickRange = timeOut[u].time + Ran(u)
                     PROVE  tick' + TickRange = timeOut'[u].time + Ran(u)'
        BY <2>4, Zenon
      <4> QED
        BY <2>3, <3>5, <3>6, <4>1
    <3>3. ~timeOut[u].wrapped => tick' = timeOut'[u].time + Ran(u)'
      <4>1. SUFFICES ASSUME tick = timeOut[u].time + Ran(u)
                     PROVE  tick' = timeOut'[u].time + Ran(u)'
        BY <2>4, Zenon
      <4> QED
        BY <2>3, <3>5, <3>6, <4>1
    <3>4. Ran(u)' >= 0
      BY <2>3, <2>4
    <3> QED
      BY <3>1, <3>2, <3>3, <3>4, Zenon
  <2> QED
    BY <2>7, <2>8
<1>12. ExpiryOf(u)'
  BY <1>9 DEF TimesOf, ExpiryOf, Starved, TypeOK
<1>13. SleepOf(u)'
  <2> SUFFICES ASSUME list'[u] = lists[u], wake'[u] = wake[u], u \notin due,
                      list'[u] \in {"delayed", "overflow"}
               PROVE  SleepOf(u)'
    BY <1>8 DEF SleepOf
  <2>1. list[u] \in {"delayed", "overflow"} /\ Timing(u)
    BY <1>4 DEF TimesOf, SleepOf
  <2>2. Timing(u)'
    BY <2>1 DEF Timing
  <2>3. list'[u] = "delayed" => nextUnblock' <= wake'[u] /\ wake[u] > now
    BY <1>6, <1>7
  <2>4. asked[u] \in Nat
    BY MaxIsTick DEF TypeOK
  <2>5. ASSUME elapsed'[u] < Starved
        PROVE  /\ asked'[u] - elapsed'[u] > 0
               /\ list'[u] = "delayed" => wake'[u] = tick' + (asked'[u] - elapsed'[u])
               /\ list'[u] = "overflow" => wake'[u] + TickRange = tick' + (asked'[u] - elapsed'[u])
    <3>1. elapsed[u] < Starved /\ elapsed'[u] = elapsed[u] + 1
      BY <1>9, <2>1, <2>5 DEF Starved
    <3>2. /\ asked[u] - elapsed[u] > 0
          /\ list[u] = "delayed" => wake[u] = tick + (asked[u] - elapsed[u])
          /\ list[u] = "overflow" => wake[u] + TickRange = tick + (asked[u] - elapsed[u])
      <4>1. SleepOf(u)
        BY DEF TimesOf
      <4>2. elapsed[u] < Starved
        BY <3>1
      <4> QED
        BY <2>1, <4>1, <4>2, Zenon DEF SleepOf
    <3>3. CASE list'[u] = "delayed"
      BY <1>1, <1>2, <1>4, <1>5, <1>9, <2>3, <2>4, <3>1, <3>2, <3>3, MaxIsTick, SMTT(30)
    <3>4. CASE list'[u] = "overflow"
      BY <1>1, <1>2, <1>4, <1>5, <1>9, <2>4, <3>1, <3>2, <3>4, MaxIsTick, SMTT(30)
    <3> QED
      BY <3>3, <3>4
  <2> QED
    BY <2>2, <2>3, <2>5 DEF SleepOf
<1> QED
  BY <1>10, <1>11, <1>12, <1>13 DEF TimesOf

\* The clock started when a call first finds that it must wait.
LEMMA WaitTimes ==
  ASSUME TypeOK, TypeOK', Control, NEW t \in Tasks, TimesOf(t), Wait(t)
  PROVE  TimesOf(t)'
<1> USE DEF TypeOK, queueVars, listVars, tickVars
<1>1. /\ pc[t] = "try" /\ pc'[t] = "suspend" /\ timed'[t] = TRUE /\ ticks[t] # 0
      /\ timeOut'[t] = IF timed[t] THEN timeOut[t] ELSE [time |-> tick, wrapped |-> FALSE]
      /\ UNCHANGED <<list, wake, tick, nextUnblock, call, ticks, why, asked, elapsed>>
  BY DEF Wait, At, Goto
<1>2. InCall(t) /\ call[t] # "delay"
  BY <1>1 DEF Control, CallAt, InCall
<1>3. LimitOf(t)'
  BY <1>1, <1>2 DEF TimesOf, LimitOf, InCall
<1>4. ClockOf(t)'
  <2>1. CASE timed[t]
    BY <1>1, <2>1 DEF TimesOf, ClockOf, Ran
  <2>2. CASE ~timed[t]
    <3>1. timeOut'[t].time = tick /\ ~timeOut'[t].wrapped
      BY <1>1, <2>2
    <3>2. Ran(t)' = 0
      BY <1>1, <1>2, <2>2, MaxIsTick DEF TimesOf, LimitOf, Ran
    <3>3. tick \in Nat
      BY MaxIsTick
    <3>4. tick' = timeOut'[t].time + Ran(t)' /\ Ran(t)' >= 0
      BY <1>1, <3>1, <3>2, <3>3
    <3> QED
      BY <1>1, <3>1, <3>4 DEF ClockOf
  <2> QED
    BY <2>1, <2>2
<1>5. ExpiryOf(t)'
  BY <1>1 DEF TimesOf, ExpiryOf
<1>6. SleepOf(t)'
  BY <1>1 DEF TimesOf, SleepOf, Timing
<1> QED
  BY <1>3, <1>4, <1>5, <1>6 DEF TimesOf

\* xTaskCheckForTimeOut() counts right, however often the counter has wrapped.
LEMMA CheckTimes ==
  ASSUME TypeOK, TypeOK', Control, NEW t \in Tasks, TimesOf(t), CheckForTimeOut(t)
  PROVE  TimesOf(t)'
<1> USE DEF queueVars, listVars, tickVars
<1>1. /\ current = t /\ pc[t] = "check"
      /\ UNCHANGED <<list, wake, tick, nextUnblock, call, timed, asked, elapsed>>
  BY DEF CheckForTimeOut, At
<1>2. InCall(t) /\ call[t] # "delay" /\ timed[t] /\ list[t] = "ready" /\ why[t] # "expired"
  BY <1>1 DEF Control, CallAt, InCall, TimesOf, LimitOf, Blocked, WhyAt, Serving
<1>3. SleepOf(t)'
  BY <1>1, <1>2 DEF SleepOf
<1>4. /\ tick \in Nat /\ ticks[t] \in Nat /\ asked[t] \in Nat /\ elapsed[t] \in Nat
      /\ tick <= portMAX_DELAY /\ ticks[t] <= portMAX_DELAY
      /\ timeOut[t].time \in Nat /\ timeOut[t].time <= portMAX_DELAY
  BY MaxIsTick DEF TypeOK, Starved
<1>5. ticks[t] <= asked[t] /\ (ticks[t] = portMAX_DELAY <=> asked[t] = portMAX_DELAY)
  BY DEF TimesOf, LimitOf
<1>6. Passed(t) \in Nat /\ Passed(t) <= portMAX_DELAY
  BY <1>4, MaxIsTick DEF Passed, Minus
<1>7. ASSUME ticks[t] # portMAX_DELAY, elapsed[t] < Starved
      PROVE  Passed(t) = Ran(t) /\ ~(timeOut[t].wrapped /\ tick >= timeOut[t].time)
  <2>1. /\ Ran(t) >= 0
        /\ timeOut[t].wrapped => tick + TickRange = timeOut[t].time + Ran(t)
        /\ ~timeOut[t].wrapped => tick = timeOut[t].time + Ran(t)
    BY <1>2, <1>7 DEF TimesOf, ClockOf
  <2>2. Ran(t) \in Nat /\ Ran(t) < TickRange
    BY <1>4, <1>5, <1>7, <2>1 DEF Ran, Starved
  <2>3. CASE timeOut[t].wrapped
    <3>1. tick + TickRange = timeOut[t].time + Ran(t)
      BY <2>1, <2>3, Zenon
    <3>2. ~(tick >= timeOut[t].time) /\ Passed(t) = Ran(t)
      BY <1>4, <2>2, <3>1, MaxIsTick DEF Passed, Minus
    <3> QED
      BY <3>2, Zenon
  <2>4. CASE ~timeOut[t].wrapped
    <3>1. tick = timeOut[t].time + Ran(t)
      BY <2>1, <2>4, Zenon
    <3>2. Passed(t) = Ran(t)
      BY <1>4, <2>2, <3>1, MaxIsTick DEF Passed, Minus
    <3> QED
      BY <2>4, <3>2, Zenon
  <2> QED
    BY <2>3, <2>4
<1>8. CASE Expired(t)
  <2>1. ticks[t] # portMAX_DELAY
    BY <1>8 DEF Expired
  <2>2. elapsed[t] < Starved => Passed(t) >= ticks[t]
    BY <1>7, <1>8, <2>1, Zenon DEF Expired
  <2>3. elapsed[t] < Starved => elapsed[t] >= asked[t]
    BY <1>4, <1>5, <1>7, <2>1, <2>2 DEF Ran
  <2>4. UNCHANGED <<ticks, timeOut>> /\ pc'[t] = "unlockTx"
    BY <1>8 DEF CheckForTimeOut, Goto, TypeOK
  <2>5. LimitOf(t)'
    BY <1>1, <1>2, <2>4 DEF TimesOf, LimitOf, InCall
  <2>6. ClockOf(t)'
    BY <1>1, <2>4 DEF TimesOf, ClockOf, Ran
  <2>7. ExpiryOf(t)'
    BY <1>1, <1>5, <2>1, <2>3 DEF ExpiryOf
  <2> QED
    BY <1>3, <2>5, <2>6, <2>7 DEF TimesOf
<1>9. CASE ~Expired(t)
  <2>1. pc'[t] = "test" /\ why'[t] = why[t]
    BY <1>9 DEF CheckForTimeOut, Goto, TypeOK
  <2>2. ExpiryOf(t)'
    BY <1>2, <2>1 DEF ExpiryOf
  <2>3. CASE ticks[t] = portMAX_DELAY
    <3>1. UNCHANGED <<ticks, timeOut>>
      BY <1>9, <2>3 DEF CheckForTimeOut
    <3>2. LimitOf(t)'
      BY <1>1, <1>2, <2>1, <3>1 DEF TimesOf, LimitOf, InCall
    <3>3. ClockOf(t)'
      BY <2>3, <3>1 DEF ClockOf
    <3> QED
      BY <1>3, <2>2, <3>2, <3>3 DEF TimesOf
  <2>4. CASE ticks[t] # portMAX_DELAY
    <3>1. ~(Passed(t) >= ticks[t])
      BY <1>9, <2>4, Zenon DEF Expired
    <3>2. /\ ticks'[t] = ticks[t] - Passed(t)
          /\ timeOut'[t] = [time |-> tick, wrapped |-> FALSE]
      BY <1>9, <2>4 DEF CheckForTimeOut, TypeOK
    <3>3. ticks'[t] > 0 /\ ticks'[t] <= ticks[t]
      BY <1>4, <1>6, <3>1, <3>2
    <3>4. LimitOf(t)'
      BY <1>1, <1>2, <1>4, <1>5, <1>6, <2>1, <2>4, <3>2, <3>3, MaxIsTick DEF LimitOf, InCall
    <3>5. ClockOf(t)'
      <4>1. SUFFICES ASSUME elapsed[t] < Starved PROVE ClockOf(t)'
        BY <1>1 DEF ClockOf
      <4>2. Ran(t)' = 0
        BY <1>1, <1>4, <1>6, <1>7, <2>4, <3>2, <4>1 DEF Ran
      <4>3. timeOut'[t].time = tick /\ ~timeOut'[t].wrapped
        BY <3>2
      <4>4. tick' = timeOut'[t].time + Ran(t)' /\ Ran(t)' >= 0
        BY <1>1, <1>4, <4>2, <4>3
      <4> QED
        BY <3>3, <4>2, <4>3, <4>4 DEF ClockOf
    <3> QED
      BY <1>3, <2>2, <3>4, <3>5 DEF TimesOf
  <2> QED
    BY <2>3, <2>4
<1> QED
  BY <1>8, <1>9

\* A task is put to sleep until its limit is over, in the list for that turn of
\* the counter.
LEMMA PlaceTimes ==
  ASSUME TypeOK, TypeOK', Control, NEW t \in Tasks, \A u \in Tasks : TimesOf(u), Place(t)
  PROVE  \A u \in Tasks : TimesOf(u)'
<1> USE DEF queueVars, callVars
<1>1. PICK forever \in BOOLEAN :
        /\ AddToDelayed(t, ticks[t], forever)
        /\ forever \/ call[t] = "delay"
        /\ forever => call[t] # "delay"
  BY DEF Place
<1>2. /\ current = t /\ pc[t] = "place" /\ pc'[t] \in {"resume", "unlockTx"}
      /\ \A u \in Tasks : u # t => pc'[u] = pc[u]
      /\ UNCHANGED <<tick, callVars>>
  <2>1. pc' = [pc EXCEPT ![t] = "resume"] \/ pc' = [pc EXCEPT ![t] = "unlockTx"]
    BY Zenon DEF Place, Goto
  <2>2. current = t /\ pc[t] = "place" /\ UNCHANGED <<tick, callVars>>
    BY DEF Place, At
  <2> QED
    BY <2>1, <2>2 DEF TypeOK
<1>3. list[t] = "ready" /\ (InCall(t) \/ call[t] = "delay")
  BY <1>2 DEF Control, Blocked, CallAt, Serving, InCall, TypeOK
<1>4. /\ tick \in Nat /\ ticks[t] \in Nat /\ asked[t] \in Nat /\ elapsed[t] \in Nat
      /\ tick <= portMAX_DELAY /\ ticks[t] <= portMAX_DELAY /\ nextUnblock \in Nat
  BY MaxIsTick DEF TypeOK, Starved
<1> DEFINE at == Plus(tick, ticks[t])
<1>5. CASE ticks[t] = portMAX_DELAY /\ forever
  <2>1. list' = [list EXCEPT ![t] = "suspended"] /\ UNCHANGED <<wake, nextUnblock>>
    BY <1>1, <1>5 DEF AddToDelayed
  <2>2. ASSUME NEW u \in Tasks, u # t PROVE TimesOf(u)'
    <3>1. Kept(u)
      BY <2>1, <2>2 DEF Kept, TypeOK
    <3> QED
      BY <1>2, <2>1, <2>2, <3>1, Untouched
  <2>3. TimesOf(t)'
    <3>1. list'[t] = "suspended"
      BY <2>1 DEF TypeOK
    <3>2. SleepOf(t)'
      BY <3>1 DEF SleepOf
    <3>3. LimitOf(t)' /\ ExpiryOf(t)'
      BY <1>2 DEF TimesOf, LimitOf, ExpiryOf, InCall
    <3>4. ClockOf(t)'
      BY <1>2, <1>5 DEF ClockOf
    <3> QED
      BY <3>2, <3>3, <3>4 DEF TimesOf
  <2> QED
    BY <2>2, <2>3
<1>6. CASE ~(ticks[t] = portMAX_DELAY /\ forever)
  <2>1. /\ wake' = [wake EXCEPT ![t] = at]
        /\ list' = [list EXCEPT ![t] = IF at < tick THEN "overflow" ELSE "delayed"]
        /\ nextUnblock' = IF at >= tick /\ at < nextUnblock THEN at ELSE nextUnblock
    BY <1>1, <1>6 DEF AddToDelayed
  <2>2. at \in Nat /\ at = IF tick + ticks[t] >= TickRange THEN tick + ticks[t] - TickRange
                           ELSE tick + ticks[t]
    BY <1>4, MaxIsTick DEF Plus
  <2> HIDE DEF at
  <2>3. nextUnblock' <= nextUnblock
    BY <1>4, <2>1, <2>2
  <2>4. ASSUME NEW u \in Tasks, u # t PROVE TimesOf(u)'
    <3>1. Kept(u) /\ list'[u] = list[u] /\ wake'[u] = wake[u]
      BY <2>1, <2>4 DEF Kept, TypeOK
    <3>2. list'[u] = "delayed" => nextUnblock' <= wake'[u]
      <4>1. list[u] = "delayed" => nextUnblock <= wake[u]
        BY DEF TimesOf, SleepOf
      <4>2. nextUnblock' \in Nat /\ wake[u] \in Nat
        BY MaxIsTick DEF TypeOK
      <4> QED
        BY <1>4, <2>3, <3>1, <4>1, <4>2
    <3> QED
      BY <1>2, <2>4, <3>1, <3>2, Untouched
  <2>5. TimesOf(t)'
    <3>1. /\ list'[t] = IF at < tick THEN "overflow" ELSE "delayed"
          /\ wake'[t] = at
      BY <2>1 DEF TypeOK
    <3>2. Timing(t)' /\ (InCall(t) => timed[t] /\ ticks[t] # portMAX_DELAY)
      <4>1. CASE InCall(t)
        <5>1. timed[t] /\ call[t] # "delay"
          BY <1>2, <4>1 DEF TimesOf, LimitOf, InCall
        <5>2. ticks[t] # portMAX_DELAY
          BY <1>1, <1>6, <5>1, Zenon
        <5> QED
          BY <1>2, <5>1, <5>2 DEF Timing
      <4>2. CASE ~InCall(t)
        <5>1. call'[t] = "delay" /\ list'[t] # "ready"
          BY <1>2, <1>3, <3>1, <4>2
        <5> QED
          BY <4>2, <5>1 DEF Timing
      <4> QED
        BY <4>1, <4>2
    <3>3. elapsed[t] < Starved => asked[t] - elapsed[t] = ticks[t] /\ ticks[t] > 0
      <4>1. CASE InCall(t)
        BY <1>2, <1>4, <3>2, <4>1 DEF TimesOf, ClockOf, Ran
      <4>2. CASE call[t] = "delay"
        <5>1. ~timed[t]
          BY <4>2 DEF TimesOf, LimitOf, InCall
        <5> QED
          BY <1>2, <1>4, <4>2, <5>1 DEF TimesOf, LimitOf
      <4> QED
        BY <1>3, <4>1, <4>2
    <3>4. list'[t] = "delayed" => nextUnblock' <= at
      BY <1>4, <2>1, <2>2, <3>1
    <3>5. ASSUME elapsed[t] < Starved
          PROVE  /\ list'[t] = "delayed" => at = tick + ticks[t]
                 /\ list'[t] = "overflow" => at + TickRange = tick + ticks[t]
      BY <1>4, <2>2, <3>1, <3>3, <3>5, MaxIsTick
    <3>6. SleepOf(t)'
      BY <1>2, <3>1, <3>2, <3>3, <3>4, <3>5 DEF SleepOf
    <3>7. LimitOf(t)' /\ ExpiryOf(t)'
      BY <1>2 DEF TimesOf, LimitOf, ExpiryOf, InCall
    <3>8. ClockOf(t)'
      BY <1>2 DEF TimesOf, ClockOf, Ran
    <3> QED
      BY <3>6, <3>7, <3>8 DEF TimesOf
  <2> QED
    BY <2>4, <2>5
<1> QED
  BY <1>5, <1>6

\* Every step keeps the times.
LEMMA TimesStep ==
  ASSUME TypeOK, TypeOK', Control, Heeded, \A t \in Tasks : TimesOf(t), [Next]_vars
  PROVE  \A t \in Tasks : TimesOf(t)'
<1> SUFFICES ASSUME NEW u \in Tasks PROVE TimesOf(u)'
  OBVIOUS
<1>0. TimesOf(u)
  OBVIOUS
<1> USE DEF listVars, tickVars, queueVars, callVars, At
<1>1. CASE TickInterrupt
  <2>1. CountTick /\ UNCHANGED <<pc, call, ticks, timed, why, asked>>
    BY <1>1 DEF TickInterrupt
  <2>2. pc[u] \notin {"test", "place"}
    BY <1>1 DEF TickInterrupt, Control, OneSuspends, Held
  <2>3. pc[u] = "delay" => list[u] = "ready" /\ call[u] = "delay"
    BY DEF Control, Blocked, CallAt, Serving
  <2> QED
    BY <2>1, <2>2, <2>3, CountTickTimes
<1>2. CASE TickPended
  BY <1>0, <1>2, Untouched DEF TickPended, Kept
<1>3. CASE SendFromISR \/ ReceiveFromISR
  <2>1. Kept(u)
    <3>1. CASE \E q \in {"send", "recv"} : WakeLater(q)
      BY <1>3, <3>1, WakeLaterHeeds DEF SendFromISR, ReceiveFromISR
    <3>2. CASE UNCHANGED listVars
      BY <3>2 DEF Kept
    <3> QED
      BY <1>3, <3>1, <3>2 DEF SendFromISR, ReceiveFromISR
  <2> QED
    BY <1>0, <1>3, <2>1, Untouched DEF SendFromISR, ReceiveFromISR
<1>4. ASSUME NEW t \in Tasks, CallQueue(t) \/ CallDelay(t) PROVE TimesOf(u)'
  <2>1. PICK kind \in {"send", "recv", "delay"}, wait \in 0 .. portMAX_DELAY,
             where \in {"try", "delay"} :
          /\ Begin(t, kind, wait, where)
          /\ where = "delay" => kind = "delay" /\ wait > 0
          /\ where = "try" => kind # "delay"
    <3>1. CASE CallQueue(t)
      BY <3>1 DEF CallQueue
    <3>2. CASE CallDelay(t)
      <4>1. \A wait \in Waits[t] \ {0} : wait \in 0 .. portMAX_DELAY /\ wait > 0
        BY MaxIsTick
      <4> QED
        BY <3>2, <4>1 DEF CallDelay
    <3> QED
      BY <1>4, <3>1, <3>2
  <2>2. CASE u # t
    BY <1>0, <2>1, <2>2, Untouched DEF Begin, Goto, Kept, TypeOK
  <2>3. CASE u = t
    <3>1. /\ pc[u] = "app" /\ pc'[u] = where /\ call'[u] = kind /\ ticks'[u] = wait /\ asked'[u] = wait
          /\ UNCHANGED <<list, wake, tick, nextUnblock, timed, timeOut, why, elapsed>>
      BY <2>1, <2>3 DEF Begin, Goto, TypeOK
    <3>2. list[u] = "ready" /\ call[u] = "none" /\ why[u] # "expired"
      BY <3>1 DEF Control, Blocked, CallAt, WhyAt, Serving, TypeOK
    <3>3. ~timed[u] /\ elapsed[u] = 0
      BY <1>0, <3>2 DEF TimesOf, LimitOf, InCall
    <3>4. LimitOf(u)'
      BY <2>1, <3>1, <3>3, MaxIsTick DEF LimitOf, InCall
    <3> QED
      BY <3>1, <3>2, <3>3, <3>4 DEF TimesOf, ClockOf, ExpiryOf, SleepOf
  <2> QED
    BY <2>2, <2>3
<1>5. ASSUME NEW t \in Tasks, Stop(t) PROVE TimesOf(u)'
  <2>1. CASE u # t
    BY <1>0, <1>5, <2>1, Untouched DEF Stop, Goto, Kept, TypeOK
  <2>2. CASE u = t
    <3>1. /\ pc[u] = "app" /\ pc'[u] = "reset" /\ call'[u] = "stop" /\ list'[u] = "suspended"
          /\ UNCHANGED <<ticks, timed, timeOut, why, asked, elapsed>>
      BY <1>5, <2>2 DEF Stop, Goto, TypeOK
    <3>2. call[u] = "none" /\ why[u] # "expired"
      BY <3>1 DEF Control, CallAt, WhyAt, Serving
    <3>3. ~timed[u] /\ elapsed[u] = 0
      BY <1>0, <3>2 DEF TimesOf, LimitOf, InCall
    <3>4. LimitOf(u)'
      BY <1>0, <3>1, <3>3 DEF TimesOf, LimitOf, InCall
    <3> QED
      BY <3>1, <3>2, <3>3, <3>4 DEF TimesOf, ClockOf, ExpiryOf, SleepOf
  <2> QED
    BY <2>1, <2>2
<1>6. ASSUME NEW t \in Tasks, NEW v \in Tasks, Resume(t, v) PROVE TimesOf(u)'
  <2>1. Kept(u)
    BY <1>6 DEF Resume, MakeReady, Kept
  <2> QED
    BY <1>0, <1>6, <2>1, Untouched DEF Resume
<1>7. ASSUME NEW t \in Tasks, Succeed(t) PROVE TimesOf(u)'
  <2>1. \A v \in Tasks : Kept(v)
    <3>1. \E q \in {"send", "recv"} : WakeAndYield(q)
      BY <1>7 DEF Succeed
    <3> QED
      BY <3>1, WakeAndYieldHeeds
  <2>2. /\ current = t /\ pc[t] = "try" /\ Return(t) /\ UNCHANGED tickVars
    BY <1>7 DEF Succeed
  <2>3. list'[t] = "ready"
    BY <2>1, <2>2 DEF Kept, Control, Blocked, Serving
  <2>4. CASE u # t
    BY <1>0, <2>1, <2>2, <2>4, ReturnOthers, Untouched
  <2> QED
    BY <2>2, <2>3, <2>4, Returned
<1>8. ASSUME NEW t \in Tasks, Refuse(t) \/ Woken(t) PROVE TimesOf(u)'
  <2>1. /\ current = t /\ pc[t] \in {"try", "woken"} /\ Return(t)
        /\ UNCHANGED <<listVars, tickVars>>
    BY <1>8 DEF Refuse, Woken
  <2>2. list'[t] = "ready"
    BY <2>1 DEF Control, Blocked, Serving
  <2>3. CASE u # t
    BY <1>0, <2>1, <2>3, ReturnOthers, Untouched DEF Kept
  <2> QED
    BY <2>1, <2>2, <2>3, Returned
<1>9. ASSUME NEW t \in Tasks, Wait(t) PROVE TimesOf(u)'
  <2>1. CASE u # t
    <3>1. /\ pc'[u] = pc[u] /\ timed'[u] = timed[u] /\ timeOut'[u] = timeOut[u]
          /\ UNCHANGED <<listVars, tickVars, call, ticks, why, asked, elapsed>>
      BY <1>9, <2>1 DEF Wait, Goto, TypeOK
    <3> QED
      BY <1>0, <3>1, Untouched DEF Kept
  <2> QED
    BY <1>0, <1>9, <2>1, WaitTimes
<1>10. ASSUME NEW t \in Tasks, SuspendAll(t) PROVE TimesOf(u)'
  <2>1. CASE u # t
    BY <1>0, <1>10, <2>1, Untouched DEF SuspendAll, Goto, Kept, TypeOK
  <2>2. CASE u = t
    <3>1. /\ pc[u] \in {"suspend", "delay"}
          /\ pc'[u] = IF pc[u] = "delay" THEN "place" ELSE "lock"
          /\ why'[u] \in {why[u], "block"}
          /\ UNCHANGED <<listVars, tickVars, call, ticks, timed, timeOut, asked, elapsed>>
      BY <1>10, <2>2 DEF SuspendAll, Goto, TypeOK
    <3>2. pc[u] = "delay" => call[u] = "delay"
      BY DEF Control, CallAt
    <3>3. pc[u] # "delay" => pc'[u] = "lock" /\ (InCall(u) => timed[u])
      BY <1>0, <3>1 DEF TimesOf, LimitOf
    <3> QED
      BY <1>0, <3>1, <3>2, <3>3, Untouched DEF Kept
  <2> QED
    BY <2>1, <2>2
<1>11. ASSUME NEW t \in Tasks, LockQueue(t) \/ TestAgain(t) PROVE TimesOf(u)'
  <2>1. CASE u # t
    BY <1>0, <1>11, <2>1, Untouched DEF LockQueue, TestAgain, Goto, Kept, TypeOK
  <2>2. CASE u = t
    <3>1. /\ pc[u] \in {"lock", "test"}
          /\ pc'[u] \in {"check", "unlockTx"} \/ (pc[u] = "test" /\ pc'[u] = "place")
          /\ why'[u] \in {why[u], "retry", "block"}
          /\ UNCHANGED <<listVars, tickVars, call, ticks, timed, timeOut, asked, elapsed>>
      BY <1>11, <2>2 DEF LockQueue, TestAgain, Goto, TypeOK
    <3>2. InCall(u) /\ timed[u]
      BY <1>0, <3>1 DEF Control, CallAt, TimesOf, LimitOf, InCall
    <3> QED
      BY <1>0, <3>1, <3>2, Untouched DEF Kept
  <2> QED
    BY <2>1, <2>2
<1>12. ASSUME NEW t \in Tasks, CheckForTimeOut(t) PROVE TimesOf(u)'
  <2>1. CASE u # t
    <3>1. /\ pc'[u] = pc[u] /\ why'[u] = why[u] /\ ticks'[u] = ticks[u] /\ timeOut'[u] = timeOut[u]
          /\ UNCHANGED <<listVars, tickVars, call, timed, asked, elapsed>>
      <4>1. CASE Expired(t)
        BY <1>12, <2>1, <4>1 DEF CheckForTimeOut, Goto, TypeOK
      <4>2. CASE ~Expired(t)
        BY <1>12, <2>1, <4>2 DEF CheckForTimeOut, Goto, TypeOK
      <4> QED
        BY <4>1, <4>2
    <3> QED
      BY <1>0, <3>1, Untouched DEF Kept
  <2> QED
    BY <1>0, <1>12, <2>1, CheckTimes
<1>13. ASSUME NEW t \in Tasks, Place(t) PROVE TimesOf(u)'
  BY <1>13, PlaceTimes
<1>14. ASSUME NEW t \in Tasks, UnlockTx(t) \/ UnlockRx(t) PROVE TimesOf(u)'
  <2>1. /\ \A v \in Tasks : pc'[v] = IF v = t THEN pc'[t] ELSE pc[v]
        /\ pc[t] \in {"unlockTx", "unlockRx"} /\ pc'[t] \in {"unlockRx", "resume"}
        /\ UNCHANGED <<list, wake, tickVars, callVars>>
    BY <1>14 DEF UnlockTx, UnlockRx, Goto, TypeOK
  <2>2. InCall(u) /\ u = t => timed[u]
    BY <1>0, <2>1 DEF TimesOf, LimitOf
  <2> QED
    BY <1>0, <2>1, <2>2, Untouched DEF Kept
<1>15. ASSUME NEW t \in Tasks, ResumeAll(t) PROVE TimesOf(u)'
  <2> DEFINE S == {v \in Tasks : list[v] = "delayed" /\ event[v] # "pending"}
  <2>1. /\ MakeReady(Awaiting("pending"), list)
        /\ nextUnblock' = nextUnblock \/ nextUnblock' = FirstWake(S)
        /\ \A v \in Tasks : pc'[v] = IF v = t THEN "unwind" ELSE pc[v]
        /\ pc[t] = "resume"
        /\ UNCHANGED <<tick, callVars>>
    BY <1>15 DEF ResumeAll, Goto, TypeOK
  <2>2. Kept(u)
    BY <2>1 DEF MakeReady, Kept
  <2>3. nextUnblock' = nextUnblock \/ (list'[u] = "delayed" => nextUnblock' <= wake'[u])
    <3>1. \A v \in S : FirstWake(S) <= wake[v]
      BY FirstWakeIsFirst
    <3>2. list'[u] = "delayed" => u \in S /\ wake'[u] = wake[u]
      BY <2>1 DEF MakeReady, Awaiting
    <3> QED
      BY <2>1, <3>1, <3>2
  <2>4. InCall(u) /\ u = t => timed[u]
    BY <1>0, <2>1 DEF TimesOf, LimitOf
  <2> QED
    BY <1>0, <2>1, <2>2, <2>3, <2>4, Untouched
<1>16. ASSUME NEW t \in Tasks, UnwindTick(t) PROVE TimesOf(u)'
  <2>1. /\ CountTick /\ UNCHANGED <<pc, call, ticks, timed, why, asked>>
        /\ current = t /\ pc[t] = "unwind"
    BY <1>16 DEF UnwindTick
  <2>2. pc[u] \notin {"test", "place"}
    BY <2>1 DEF Control, OneSuspends, Held
  <2>3. pc[u] = "delay" => list[u] = "ready" /\ call[u] = "delay"
    BY DEF Control, Blocked, CallAt, Serving
  <2> QED
    BY <2>1, <2>2, <2>3, CountTickTimes
<1>17. ASSUME NEW t \in Tasks, NEW where \in {"unwind", "yield", "verdict"},
              pc[t] = where, current = t, UNCHANGED <<listVars, tickVars>>,
              \/ Return(t) /\ list[t] = "ready"
              \/ Continue(t)
              \/ (Goto(t, "verdict") \/ Goto(t, "yield")) /\ UNCHANGED callVars
       PROVE  TimesOf(u)'
  <2>1. CASE Return(t) /\ list[t] = "ready"
    <3>1. CASE u # t
      BY <1>0, <1>17, <2>1, <3>1, ReturnOthers, Untouched DEF Kept
    <3> QED
      BY <1>17, <2>1, <3>1, Returned
  <2>2. CASE \/ Continue(t)
             \/ (Goto(t, "verdict") \/ Goto(t, "yield")) /\ UNCHANGED callVars
    <3>1. PICK there \in {"try", "woken", "verdict", "yield"} : pc' = [pc EXCEPT ![t] = there]
      BY <2>2 DEF Continue, Goto
    <3>2. UNCHANGED <<call, ticks, timed, timeOut, asked, elapsed>> /\ why'[u] \in {why[u], "none"}
      BY <2>2 DEF Continue, TypeOK
    <3>3. InCall(t) => timed[t]
      BY <1>17 DEF TimesOf, LimitOf
    <3>4. pc'[u] = IF u = t THEN there ELSE pc[u]
      BY <3>1 DEF TypeOK
    <3> QED
      BY <1>0, <1>17, <3>2, <3>3, <3>4, Untouched DEF Kept
  <2> QED
    BY <1>17, <2>1, <2>2
<1>18. ASSUME NEW t \in Tasks, Resumed(t) PROVE TimesOf(u)'
  <2>1. current = t /\ pc[t] = "unwind" /\ UNCHANGED <<listVars, tickVars>>
    BY <1>18 DEF Resumed
  <2>2. why[t] = "expired" => list[t] = "ready"
    BY <2>1 DEF Control, Blocked, Serving
  <2>3. \/ Return(t) /\ list[t] = "ready"
        \/ Continue(t)
        \/ (Goto(t, "verdict") \/ Goto(t, "yield")) /\ UNCHANGED callVars
    BY <1>18, <2>2 DEF Resumed
  <2> QED
    BY <1>17, <2>1, <2>3
<1>19. ASSUME NEW t \in Tasks, Yield(t) PROVE TimesOf(u)'
  BY <1>17, <1>19 DEF Yield
<1>20. ASSUME NEW t \in Tasks, Verdict(t) PROVE TimesOf(u)'
  <2>1. current = t /\ pc[t] = "verdict" /\ UNCHANGED <<listVars, tickVars>>
    BY <1>20 DEF Verdict
  <2>2. list[t] = "ready"
    BY <2>1 DEF Control, Blocked, Serving
  <2>3. Return(t) \/ Continue(t)
    BY <1>20 DEF Verdict
  <2> QED
    BY <1>17, <2>1, <2>2, <2>3
<1>21. ASSUME NEW t \in Tasks, ResetUnblock(t) PROVE TimesOf(u)'
  <2> DEFINE S == {v \in Tasks : list[v] = "delayed"}
  <2>1. /\ nextUnblock' = FirstWake(S)
        /\ \A v \in Tasks : pc'[v] = IF v = t THEN "yield" ELSE pc[v]
        /\ pc[t] = "reset"
        /\ UNCHANGED <<listVars, tick, callVars>>
    BY <1>21 DEF ResetUnblock, Goto, TypeOK
  <2>2. list'[u] = "delayed" => nextUnblock' <= wake'[u]
    BY <2>1, FirstWakeIsFirst
  <2>3. InCall(u) /\ u = t => timed[u]
    BY <1>0, <2>1 DEF TimesOf, LimitOf
  <2> QED
    BY <1>0, <2>1, <2>2, <2>3, Untouched DEF Kept
<1>22. CASE UNCHANGED vars
  BY <1>0, <1>22, Untouched DEF vars, Kept
<1> QED
  BY <1>1, <1>2, <1>3, <1>4, <1>5, <1>6, <1>7, <1>8, <1>9, <1>10, <1>11, <1>12, <1>13, <1>14,
     <1>15, <1>16, <1>18, <1>19, <1>20, <1>21, <1>22 DEF Next, Ask, Step

-----------------------------------------------------------------------------
(* The theorems.                                                           *)

LEMMA InitIInv == Init => IInv
<1> SUFFICES ASSUME Init PROVE IInv
  OBVIOUS
<1>1. \A t \in Tasks : TimesOf(t)
  BY MaxIsTick DEF Init, TimesOf, LimitOf, ClockOf, ExpiryOf, SleepOf, InCall
<1>2. Heeded
  BY DEF Init, Heeded, FirstOf
<1> QED
  BY <1>1, <1>2, InitType, InitControl DEF IInv, Control

LEMMA NextIInv == IInv /\ [Next]_vars => IInv'
BY TypeStep, ControlStep, TimesStep, HeededStep DEF IInv, Control

\* The inductive invariant of the kernel holds in every reachable state, for
\* any tasks, priorities, calls and limits and any width of the counter.
THEOREM Inductive == Spec => []IInv
BY InitIInv, NextIInv, PTL DEF Spec

\* The state of the kernel keeps its types: no tick count leaves the width of
\* TickType_t and the queue never holds more than its length.
THEOREM TypeCorrect == Spec => []TypeOK
<1>1. IInv => TypeOK
  BY DEF IInv
<1> QED
  BY <1>1, Inductive, PTL

\* No task blocks without a time limit where no event can wake it, and none
\* that runs is still in the list of an event.
THEOREM NeverStranded == Spec => []NoneStranded
<1>1. IInv => NoneStranded
  BY DEF IInv
<1> QED
  BY <1>1, Inductive, PTL

\* The delayed list is looked at in time, though xNextTaskUnblockTime is kept
\* up by five functions.
THEOREM UnblockInTime == Spec => []NextUnblockInTime
<1>1. IInv => NextUnblockInTime
  BY DEF IInv, TimesOf, SleepOf, NextUnblockInTime
<1> QED
  BY <1>1, Inductive, PTL

\* The blocked sleep as long as they asked, through any wrap of the counter.
THEOREM SleepIsExact == Spec => []SleepExact
<1>1. IInv => SleepExact
  <2> SUFFICES ASSUME IInv, NEW t \in Tasks, elapsed[t] < Starved
               PROVE  LET left == asked[t] - elapsed[t] IN
                      /\ list[t] = "delayed"  => left > 0 /\ wake[t] = tick + left
                      /\ list[t] = "overflow" => left > 0 /\ wake[t] + TickRange = tick + left
    BY DEF SleepExact
  <2>1. SleepOf(t)
    BY DEF IInv, TimesOf
  <2> QED
    BY <2>1, Zenon DEF SleepOf
<1> QED
  BY <1>1, Inductive, PTL

\* No call reports a time-out early, and none sleeps again after its limit.
THEOREM TimeOutIsHonest == Spec => []TimeOutHonest
<1>1. IInv => TimeOutHonest
  <2> SUFFICES ASSUME IInv, NEW t \in Tasks, elapsed[t] < Starved
               PROVE  /\ why[t] = "expired" => elapsed[t] >= asked[t]
                      /\ pc[t] = "place" /\ ticks[t] # portMAX_DELAY => elapsed[t] < asked[t]
    BY DEF TimeOutHonest
  <2>1. TimesOf(t)
    BY DEF IInv
  <2>2. why[t] = "expired" => elapsed[t] >= asked[t]
    BY <2>1 DEF TimesOf, ExpiryOf
  <2>3. ASSUME pc[t] = "place", ticks[t] # portMAX_DELAY PROVE elapsed[t] < asked[t]
    <3>1. ticks[t] \in Nat /\ asked[t] \in Nat /\ elapsed[t] \in Nat
      BY MaxIsTick DEF IInv, TypeOK, Starved
    <3>2. call[t] = "delay" \/ InCall(t)
      BY <2>3 DEF IInv, TypeOK, CallAt, InCall
    <3>3. CASE call[t] = "delay"
      <4>1. ~timed[t] /\ elapsed[t] = 0 /\ ticks[t] > 0
        BY <2>1, <2>3, <3>3 DEF TimesOf, LimitOf, InCall
      <4> QED
        BY <2>1, <3>1, <4>1 DEF TimesOf, LimitOf
    <3>4. CASE InCall(t)
      <4>1. timed[t]
        BY <2>1, <2>3, <3>4 DEF TimesOf, LimitOf
      <4>2. Ran(t) = 0 /\ ticks[t] > 0
        BY <2>1, <2>3, <4>1 DEF TimesOf, ClockOf
      <4> QED
        BY <3>1, <4>2 DEF Ran
    <3> QED
      BY <3>2, <3>3, <3>4
  <2> QED
    BY <2>2, <2>3
<1> QED
  BY <1>1, Inductive, PTL

\* A ready task of a higher priority runs or a yield is pending, in every state.
THEOREM YieldIsRemembered == Spec => []YieldRemembered
<1>1. IInv => YieldRemembered
  BY DEF IInv, Heeded, YieldRemembered
<1> QED
  BY <1>1, Inductive, PTL

-----------------------------------------------------------------------------
(* No wake-up is lost.                                                     *)

\* What the queue has for the callers of a kind: messages, or room; how much
\* of it came while the queue was locked, and is in prvUnlockQueue()'s charge.
Kinds       == {"send", "recv"}
Avail(kind) == IF kind = "send" THEN QLen - count ELSE count
Lock(kind)  == IF kind = "send" THEN rxLock ELSE txLock
Owed(kind)  == IF Lock(kind) = queueUNLOCKED THEN 0 ELSE Lock(kind)

\* Callers that will look at the queue before they block or give up.
Coming(kind) ==
  {t \in Tasks : /\ call[t] = kind /\ event[t] # kind
                 /\ pc[t] \notin {"suspend", "lock", "check", "test", "place"}
                 /\ why[t] # "expired"}

\* While any wait, there is somebody coming, or owed, for all the queue has.
Saved(kind) ==
  Awaiting(kind) # {} => Avail(kind) <= Cardinality(Coming(kind)) + Owed(kind)

\* Who is about to wait saw nothing when the queue had been locked.
Placed(kind) ==
  \A t \in Tasks : pc[t] = "place" /\ call[t] = kind => Avail(kind) <= Lock(kind)

\* The queue is locked by who is between prvLockQueue() and prvUnlockQueue().
LockHeld == \/ pc[current] \in {"check", "test", "unlockTx"}
            \/ pc[current] = "place" /\ InCall(current)
LockAt ==
  /\ txLock # queueUNLOCKED <=> LockHeld
  /\ rxLock # queueUNLOCKED <=> LockHeld \/ pc[current] = "unlockRx"

\* Senders wait in the list of senders, receivers in that of receivers.
OwnList == \A t \in Tasks : event[t] \in Kinds => event[t] = call[t]

Counted == LockAt /\ OwnList /\ \A kind \in Kinds : Saved(kind) /\ Placed(kind)

LEMMA CountTypes ==
  ASSUME TypeOK, NEW kind \in Kinds
  PROVE  /\ Avail(kind) \in Nat /\ Owed(kind) \in Nat
         /\ Lock(kind) \in Int /\ Lock(kind) >= queueUNLOCKED
         /\ IsFiniteSet(Coming(kind)) /\ Cardinality(Coming(kind)) \in Nat
<1>1. IsFiniteSet(Coming(kind))
  BY FS_Subset DEF Coming
<1>2. Cardinality(Coming(kind)) \in Nat
  BY <1>1, FS_CardinalityType
<1>3. Lock(kind) \in Int /\ Lock(kind) >= queueUNLOCKED
  BY DEF TypeOK, Lock, queueUNLOCKED
<1>4. Owed(kind) \in Nat
  BY <1>3 DEF Owed, queueUNLOCKED
<1>5. Avail(kind) \in Nat
  BY DEF TypeOK, Avail
<1> QED
  BY <1>1, <1>2, <1>3, <1>4, <1>5

\* The same one step later.
LEMMA CountTypesNext ==
  ASSUME TypeOK', NEW kind \in Kinds
  PROVE  /\ Avail(kind)' \in Nat /\ Owed(kind)' \in Nat
         /\ Lock(kind)' \in Int /\ Lock(kind)' >= queueUNLOCKED
         /\ IsFiniteSet(Coming(kind)') /\ Cardinality(Coming(kind)') \in Nat
<1>1. IsFiniteSet(Coming(kind)')
  BY FS_Subset DEF Coming
<1>2. Cardinality(Coming(kind)') \in Nat
  BY <1>1, FS_CardinalityType
<1>3. Lock(kind)' \in Int /\ Lock(kind)' >= queueUNLOCKED
  BY DEF TypeOK, Lock, queueUNLOCKED
<1>4. Owed(kind)' \in Nat
  BY <1>3 DEF Owed, queueUNLOCKED
<1>5. Avail(kind)' \in Nat
  <2>1. count' \in 0 .. QLen
    BY DEF TypeOK
  <2>2. Avail(kind)' = QLen - count' \/ Avail(kind)' = count'
    BY DEF Avail
  <2> QED
    BY <2>1, <2>2
<1> QED
  BY <1>1, <1>2, <1>3, <1>4, <1>5

\* Nobody joins a list of waiters.
NoneJoins == \A t \in Tasks : event'[t] = event[t] \/ event'[t] \notin Kinds

\* Nobody joins, and who was coming still is, or there is nothing to come for.
LEMMA SavedKept ==
  ASSUME TypeOK, TypeOK', NEW kind \in Kinds, Saved(kind), NoneJoins,
         Avail(kind)' <= Avail(kind), Owed(kind)' >= Owed(kind),
         Avail(kind)' = 0 \/ Coming(kind) \subseteq Coming(kind)'
  PROVE  Saved(kind)'
<1>1. Awaiting(kind)' # {} => Awaiting(kind) # {}
  BY DEF Awaiting, NoneJoins
<1>2. CASE Avail(kind)' = 0
  BY <1>2, CountTypesNext DEF Saved
<1>3. CASE Coming(kind) \subseteq Coming(kind)'
  <2>1. Cardinality(Coming(kind)) <= Cardinality(Coming(kind)')
    BY <1>3, CountTypesNext, FS_Subset
  <2> QED
    BY <1>1, <2>1, CountTypes, CountTypesNext DEF Saved
<1> QED
  BY <1>2, <1>3

\* One is woken for one more.
LEMMA SavedWoken ==
  ASSUME TypeOK, TypeOK', NEW kind \in Kinds, Saved(kind), NoneJoins,
         Avail(kind)' = Avail(kind) + 1, Owed(kind)' = Owed(kind),
         Coming(kind) \subseteq Coming(kind)',
         NEW u \in Tasks, event[u] = kind, u \in Coming(kind)'
  PROVE  Saved(kind)'
<1>1. Awaiting(kind) # {}
  BY DEF Awaiting
<1>2. u \notin Coming(kind)
  BY DEF Coming
<1>3. /\ IsFiniteSet(Coming(kind) \cup {u})
      /\ Cardinality(Coming(kind) \cup {u}) = Cardinality(Coming(kind)) + 1
  BY <1>2, CountTypes, FS_AddElement
<1>4. Cardinality(Coming(kind) \cup {u}) <= Cardinality(Coming(kind)')
  BY CountTypesNext, FS_Subset
<1> QED
  BY <1>1, <1>3, <1>4, CountTypes, CountTypesNext DEF Saved

\* One takes what it came for.
LEMMA SavedServed ==
  ASSUME TypeOK, TypeOK', NEW kind \in Kinds, Saved(kind), NoneJoins,
         Avail(kind)' = Avail(kind) - 1, Owed(kind)' = Owed(kind),
         NEW t \in Coming(kind), Coming(kind) \ {t} \subseteq Coming(kind)'
  PROVE  Saved(kind)'
<1>1. Awaiting(kind)' # {} => Awaiting(kind) # {}
  BY DEF Awaiting, NoneJoins
<1>2. Cardinality(Coming(kind) \ {t}) = Cardinality(Coming(kind)) - 1
  BY CountTypes, FS_RemoveElement
<1>3. Cardinality(Coming(kind) \ {t}) <= Cardinality(Coming(kind)')
  BY CountTypesNext, FS_Subset
<1> QED
  BY <1>1, <1>2, <1>3, CountTypes, CountTypesNext DEF Saved

\* The queue is unlocked, and the waiters owed are woken.
LEMMA SavedUnlocked ==
  ASSUME TypeOK, TypeOK', NEW kind \in Kinds, Saved(kind),
         Lock(kind) # queueUNLOCKED, Avail(kind)' = Avail(kind),
         WakeMany(kind, Lock(kind)), Coming(kind) \subseteq Coming(kind)',
         \A u \in Awaiting(kind) : event'[u] # kind => u \in Coming(kind)'
  PROVE  Saved(kind)'
<1>1. PICK S \in SUBSET Awaiting(kind) :
        /\ Cardinality(S) <= Lock(kind)
        /\ Cardinality(S) < Lock(kind) => S = Awaiting(kind)
        /\ event' = [t \in Tasks |-> IF t \in S THEN "pending" ELSE event[t]]
  BY DEF WakeMany
<1>2. Awaiting(kind)' = Awaiting(kind) \ S
  BY <1>1 DEF Awaiting, Kinds
<1>3. SUFFICES ASSUME Awaiting(kind)' # {}
               PROVE  Avail(kind)' <= Cardinality(Coming(kind)') + Owed(kind)'
  BY DEF Saved
<1>4. S # Awaiting(kind) /\ Awaiting(kind) # {}
  BY <1>2, <1>3
<1>5. IsFiniteSet(S) /\ Cardinality(S) \in Nat
  <2>1. S \in SUBSET Tasks
    BY DEF Awaiting
  <2>2. IsFiniteSet(S)
    BY <2>1, FS_Subset
  <2> QED
    BY <2>2, FS_CardinalityType
<1>6. Cardinality(S) = Lock(kind) /\ Owed(kind) = Lock(kind)
  BY <1>1, <1>4, <1>5, CountTypes DEF Owed
<1>7. S \cap Coming(kind) = {}
  BY DEF Awaiting, Coming
<1>8. S \subseteq Coming(kind)'
  BY <1>1 DEF Awaiting, Kinds
<1>9. Cardinality(S \cup Coming(kind)) = Cardinality(S) + Cardinality(Coming(kind))
  <2> DEFINE C == Coming(kind)
  <2>1. IsFiniteSet(C) /\ Cardinality(C) \in Nat
    BY CountTypes
  <2> HIDE DEF C
  <2>2. Cardinality(S \cup C) = Cardinality(S) + Cardinality(C) - Cardinality(S \cap C)
    BY <1>5, <2>1, FS_Union
  <2>3. S \cap C = {} /\ Cardinality({}) = 0
    BY <1>7, FS_EmptySet DEF C
  <2>4. Cardinality(S \cap C) = 0
    BY <2>3, Zenon
  <2>5. Cardinality(S \cup C) = Cardinality(S) + Cardinality(C)
    BY <1>5, <2>1, <2>2, <2>4
  <2> QED
    BY <2>5 DEF C
<1>10. Cardinality(S \cup Coming(kind)) <= Cardinality(Coming(kind)')
  BY <1>8, CountTypesNext, FS_Subset
<1> QED
  BY <1>4, <1>6, <1>9, <1>10, CountTypes, CountTypesNext DEF Saved

\* With the scheduler not suspended the queue is not locked, and nobody is
\* about to wait.
LEMMA NotLocked ==
  ASSUME OneSuspends, CallAt, current \in Tasks, LockAt, ~schedSuspended
  PROVE  txLock = queueUNLOCKED /\ rxLock = queueUNLOCKED
BY DEF OneSuspends, LockAt, LockHeld, Held

LEMMA NotLockedNext ==
  ASSUME OneSuspends', current' \in Tasks, ~schedSuspended',
         txLock' = queueUNLOCKED, rxLock' = queueUNLOCKED
  PROVE  LockAt' /\ \A kind \in Kinds : Placed(kind)'
<1>1. \A t \in Tasks : pc'[t] \notin Held
  BY DEF OneSuspends
<1>2. LockAt'
  BY <1>1 DEF LockAt, LockHeld, Held
<1>3. \A kind \in Kinds : Placed(kind)'
  BY <1>1 DEF Placed, Held
<1> QED
  BY <1>2, <1>3

\* Easing the tasks has nobody join a list of waiters.
LEMMA EasedJoins ==
  ASSUME \A t \in Tasks : Eased(t)
  PROVE  NoneJoins
BY DEF Eased, NoneJoins, Kinds

\* A waiter is in the list of its call, in every step that leaves it its call.
LEMMA OwnListKept ==
  ASSUME TypeOK', NoneStranded', OwnList, NoneJoins,
         \A t \in Tasks : call'[t] = call[t] \/ call'[t] \notin Kinds \/ event[t] \notin Kinds
  PROVE  OwnList'
BY DEF OwnList, NoneJoins, NoneStranded, Kinds

\* Nobody waiting is about to block or about to give up.
LEMMA WaitersCome ==
  ASSUME Control, OwnList, NEW kind \in Kinds, NEW u \in Tasks, event[u] = kind
  PROVE  /\ call[u] = kind /\ why[u] # "expired"
         /\ pc[u] \notin {"suspend", "lock", "check", "test", "place"}
<1>1. call[u] = kind /\ list[u] # "ready"
  BY DEF OwnList, Control, NoneStranded, Kinds
<1>2. \/ pc[u] \in {"yield", "reset"}
      \/ pc[u] \in Serving /\ why[u] = "block"
      \/ pc[u] \in {"try", "woken"}
  BY <1>1 DEF Control, Blocked
<1> QED
  BY <1>1, <1>2 DEF Control, WhyAt, Serving

\* A step taken with the scheduler not suspended, that moves no message:
\* nobody joins, and who was coming still is, or there is nothing to come for.
LEMMA FreeStep ==
  ASSUME IInv, IInv', Counted, ~schedSuspended, UNCHANGED <<queueVars, schedSuspended>>,
         NoneJoins,
         \A t \in Tasks : call'[t] = call[t] \/ call'[t] \notin Kinds \/ event[t] \notin Kinds,
         \A kind \in Kinds : Avail(kind) = 0 \/ Coming(kind) \subseteq Coming(kind)'
  PROVE  Counted'
<1>1. LockAt' /\ \A kind \in Kinds : Placed(kind)'
  <2>1. txLock = queueUNLOCKED /\ rxLock = queueUNLOCKED
    BY NotLocked DEF IInv, Counted, TypeOK
  <2> QED
    BY <2>1, NotLockedNext DEF IInv, TypeOK, queueVars
<1>2. OwnList'
  BY OwnListKept DEF IInv, Counted
<1>3. ASSUME NEW kind \in Kinds PROVE Saved(kind)'
  <2>1. Avail(kind)' = Avail(kind) /\ Owed(kind)' = Owed(kind)
    BY DEF Avail, Owed, Lock, queueVars
  <2>2. Saved(kind) /\ TypeOK /\ TypeOK'
    BY DEF Counted, IInv
  <2>3. Owed(kind)' >= Owed(kind) /\ Avail(kind)' <= Avail(kind)
    BY <2>1, <2>2, CountTypes
  <2> QED
    BY <2>1, <2>2, <2>3, SavedKept
<1> QED
  BY <1>1, <1>2, <1>3 DEF Counted

\* Who is coming still is, when only the lists change and nobody joins them.
LEMMA ComingKept ==
  ASSUME NoneJoins, NEW kind \in Kinds, UNCHANGED <<pc, call, why>>
  PROVE  Coming(kind) \subseteq Coming(kind)'
BY DEF Coming, NoneJoins

\* The same when t alone moves, and is coming if it was.
LEMMA ComingOthers ==
  ASSUME NoneJoins, NEW kind \in Kinds, NEW t \in Tasks,
         \A u \in Tasks : u # t => pc'[u] = pc[u] /\ call'[u] = call[u] /\ why'[u] = why[u],
         t \in Coming(kind) => t \in Coming(kind)'
  PROVE  Coming(kind) \subseteq Coming(kind)'
BY DEF Coming, NoneJoins

\* A wake-up: nobody joins, and who is woken was the first of the list.
LEMMA UnblockWakes ==
  ASSUME TypeOK, NEW u \in Tasks, Unblock(u)
  PROVE  event'[u] \in {"none", "pending"} /\ \A t \in Tasks : t # u => event'[t] = event[t]
<1>1. CASE schedSuspended
  BY <1>1 DEF Unblock, TypeOK
<1>2. CASE ~schedSuspended
  BY <1>2 DEF Unblock, TypeOK
<1> QED
  BY <1>1, <1>2

LEMMA WakeLaterWakes ==
  ASSUME TypeOK, NEW q \in Kinds, WakeLater(q)
  PROVE  /\ NoneJoins
         /\ Awaiting(q) = {} => event' = event
         /\ Awaiting(q) # {} => \E u \in Tasks : event[u] = q /\ event'[u] # q
<1>1. CASE Awaiting(q) = {}
  BY <1>1 DEF WakeLater, listVars, NoneJoins
<1>2. CASE Awaiting(q) # {}
  <2>1. PICK u \in Tasks : Unblock(u) /\ event[u] = q
    BY <1>2 DEF WakeLater, FirstOf, Awaiting
  <2> QED
    BY <1>2, <2>1, UnblockWakes DEF NoneJoins, Kinds
<1> QED
  BY <1>1, <1>2

LEMMA WakeAndYieldWakes ==
  ASSUME TypeOK, NEW q \in Kinds, WakeAndYield(q)
  PROVE  /\ NoneJoins
         /\ Awaiting(q) = {} => event' = event
         /\ Awaiting(q) # {} => \E u \in Tasks : event[u] = q /\ event'[u] # q
<1>1. CASE Awaiting(q) = {}
  BY <1>1 DEF WakeAndYield, listVars, NoneJoins
<1>2. CASE Awaiting(q) # {}
  <2>1. PICK u \in Tasks : Unblock(u) /\ event[u] = q
    BY <1>2 DEF WakeAndYield, FirstOf, Awaiting
  <2> QED
    BY <1>2, <2>1, UnblockWakes DEF NoneJoins, Kinds
<1> QED
  BY <1>1, <1>2

\* The queue has one more for a kind, and has woken one of those who wait.
LEMMA SavedByWaking ==
  ASSUME TypeOK, TypeOK', Control, OwnList, NEW kind \in Kinds, Saved(kind), NoneJoins,
         Avail(kind)' = Avail(kind) + 1, Owed(kind)' = Owed(kind),
         Coming(kind) \subseteq Coming(kind)',
         Awaiting(kind) = {} => event' = event,
         Awaiting(kind) # {} => \E u \in Tasks : event[u] = kind /\ event'[u] # kind,
         \A u \in Tasks : event[u] = kind =>
           pc'[u] = pc[u] /\ call'[u] = call[u] /\ why'[u] = why[u]
  PROVE  Saved(kind)'
<1>1. CASE Awaiting(kind) = {}
  <2>1. Awaiting(kind)' = {}
    BY <1>1 DEF Awaiting
  <2> QED
    BY <2>1 DEF Saved
<1>2. CASE Awaiting(kind) # {}
  <2>1. PICK u \in Tasks : event[u] = kind /\ event'[u] # kind
    BY <1>2
  <2>2. u \in Coming(kind)'
    <3>1. /\ call[u] = kind /\ why[u] # "expired"
          /\ pc[u] \notin {"suspend", "lock", "check", "test", "place"}
      BY <2>1, WaitersCome
    <3> QED
      BY <2>1, <3>1 DEF Coming
  <2> QED
    BY <2>1, <2>2, SavedWoken
<1> QED
  BY <1>1, <1>2

\* xQueueGenericSendFromISR(), xQueueReceiveFromISR()
LEMMA InterruptCounts ==
  ASSUME IInv, IInv', Counted, SendFromISR \/ ReceiveFromISR
  PROVE  Counted'
<1> USE DEF IInv
<1>1. PICK kind, other \in Kinds :
        /\ kind # other
        /\ Avail(kind)' = Avail(kind) + 1 /\ Avail(other)' = Avail(other) - 1
        /\ Lock(other)' = Lock(other)
        /\ \/ Lock(kind) = queueUNLOCKED /\ Lock(kind)' = Lock(kind) /\ WakeLater(kind)
           \/ Lock(kind) # queueUNLOCKED /\ Lock(kind)' = Lock(kind) + 1 /\ UNCHANGED listVars
  <2>1. CASE SendFromISR
    <3>1. /\ Avail("recv")' = Avail("recv") + 1 /\ Avail("send")' = Avail("send") - 1
          /\ Lock("send")' = Lock("send")
      BY <2>1 DEF SendFromISR, Avail, Lock, TypeOK
    <3>2. \/ Lock("recv") = queueUNLOCKED /\ Lock("recv")' = Lock("recv") /\ WakeLater("recv")
          \/ Lock("recv") # queueUNLOCKED /\ Lock("recv")' = Lock("recv") + 1 /\ UNCHANGED listVars
      BY <2>1 DEF SendFromISR, Lock, listVars
    <3> QED
      BY <3>1, <3>2 DEF Kinds
  <2>2. CASE ReceiveFromISR
    <3>1. /\ Avail("send")' = Avail("send") + 1 /\ Avail("recv")' = Avail("recv") - 1
          /\ Lock("recv")' = Lock("recv")
      BY <2>2 DEF ReceiveFromISR, Avail, Lock, TypeOK
    <3>2. \/ Lock("send") = queueUNLOCKED /\ Lock("send")' = Lock("send") /\ WakeLater("send")
          \/ Lock("send") # queueUNLOCKED /\ Lock("send")' = Lock("send") + 1 /\ UNCHANGED listVars
      BY <2>2 DEF ReceiveFromISR, Lock, listVars
    <3> QED
      BY <3>1, <3>2 DEF Kinds
  <2> QED
    BY <2>1, <2>2
<1>2. UNCHANGED <<current, schedSuspended, pc, call, why>>
  BY DEF SendFromISR, ReceiveFromISR, callVars
<1>3. NoneJoins
  BY <1>1, WakeLaterWakes DEF NoneJoins, listVars
<1>4. \A k \in Kinds : Coming(k) \subseteq Coming(k)'
  BY <1>2, <1>3, ComingKept
<1>5. OwnList'
  BY <1>2, <1>3, OwnListKept DEF Counted
<1>6. LockAt'
  <2>1. /\ txLock' # queueUNLOCKED <=> txLock # queueUNLOCKED
        /\ rxLock' # queueUNLOCKED <=> rxLock # queueUNLOCKED
    BY DEF SendFromISR, ReceiveFromISR, TypeOK, queueUNLOCKED
  <2> QED
    BY <1>2, <2>1 DEF Counted, LockAt, LockHeld, InCall
<1>7. Saved(kind)'
  <2>1. CASE Lock(kind) = queueUNLOCKED
    <3>1. Owed(kind)' = Owed(kind)
      BY <1>1, <2>1 DEF Owed
    <3> QED
      BY <1>1, <1>2, <1>3, <1>4, <2>1, <3>1, WakeLaterWakes, SavedByWaking DEF Counted, Control
  <2>2. CASE Lock(kind) # queueUNLOCKED
    <3>1. Owed(kind)' = Owed(kind) + 1
      BY <1>1, <2>2, CountTypes DEF Owed, queueUNLOCKED
    <3>2. Awaiting(kind)' = Awaiting(kind) /\ Coming(kind)' = Coming(kind)
      BY <1>1, <1>2, <2>2 DEF Awaiting, Coming, listVars
    <3> QED
      BY <1>1, <3>1, <3>2, CountTypes DEF Saved, Counted
  <2> QED
    BY <2>1, <2>2
<1>8. Saved(other)'
  <2>1. Owed(other)' = Owed(other)
    BY <1>1 DEF Owed
  <2>2. Owed(other)' >= Owed(other) /\ Avail(other)' <= Avail(other)
    BY <1>1, <2>1, CountTypes
  <2> QED
    BY <1>3, <1>4, <2>2, SavedKept DEF Counted
<1>9. Placed(kind)' /\ Placed(other)'
  <2>1. SUFFICES ASSUME NEW t \in Tasks, pc'[t] = "place", call'[t] \in Kinds
                 PROVE  /\ call'[t] = kind => Avail(kind)' <= Lock(kind)'
                        /\ call'[t] = other => Avail(other)' <= Lock(other)'
    BY <1>1 DEF Placed
  <2>2. pc[t] = "place" /\ call[t] \in Kinds /\ t = current
    BY <1>2, <2>1 DEF OneSuspends, Held
  <2>3. txLock # queueUNLOCKED /\ rxLock # queueUNLOCKED
    BY <2>2 DEF Counted, LockAt, LockHeld, InCall, Kinds
  <2>4. Lock(kind) # queueUNLOCKED
    BY <2>3 DEF Lock
  <2>5. Lock(kind)' = Lock(kind) + 1
    BY <1>1, <2>4
  <2> QED
    BY <1>1, <1>2, <2>2, <2>5, CountTypes DEF Counted, Placed
<1>10. ASSUME NEW k \in Kinds PROVE k = kind \/ k = other
  BY <1>1 DEF Kinds
<1>11. \A k \in Kinds : Saved(k)' /\ Placed(k)'
  BY <1>7, <1>8, <1>9, <1>10, Zenon
<1> QED
  BY <1>5, <1>6, <1>11 DEF Counted

\* A caller is served.
LEMMA SuccessCounts ==
  ASSUME IInv, IInv', Counted, NEW t \in Tasks, Succeed(t)
  PROVE  Counted'
<1> USE DEF IInv
<1>1. PICK kind, other \in Kinds :
        /\ kind # other
        /\ call[t] = other
        /\ Avail(kind)' = Avail(kind) + 1 /\ Avail(other)' = Avail(other) - 1
        /\ WakeAndYield(kind)
  <2>1. CASE call[t] = "send"
    <3>1. Avail("recv")' = Avail("recv") + 1 /\ Avail("send")' = Avail("send") - 1
      BY <2>1 DEF Succeed, Avail, TypeOK
    <3> QED
      BY <2>1, <3>1 DEF Kinds, Succeed
  <2>2. CASE call[t] = "recv"
    <3>1. Avail("send")' = Avail("send") + 1 /\ Avail("recv")' = Avail("recv") - 1
      BY <2>2 DEF Succeed, Avail, TypeOK
    <3> QED
      BY <2>2, <3>1 DEF Kinds, Succeed
  <2> QED
    BY <2>1, <2>2 DEF Succeed, At, CallAt
<1>2. /\ current = t /\ pc[t] = "try" /\ Return(t)
      /\ UNCHANGED <<schedSuspended, txLock, rxLock>>
  BY DEF Succeed, At
<1>3. \A u \in Tasks : u # t => pc'[u] = pc[u] /\ call'[u] = call[u] /\ why'[u] = why[u]
  BY <1>2 DEF Return, Goto, TypeOK
<1>4. event[t] = "none" /\ call'[t] = "none"
  <2>1. list[t] = "ready"
    BY <1>2 DEF Blocked, Serving
  <2>2. event[t] = "none"
    BY <2>1 DEF NoneStranded
  <2> QED
    BY <1>2, <2>2 DEF Return, TypeOK
<1>5. ~schedSuspended
  BY <1>2 DEF OneSuspends, Held
<1>6. NoneJoins
  BY <1>1, WakeAndYieldWakes
<1>7. LockAt' /\ \A k \in Kinds : Placed(k)'
  <2>1. txLock = queueUNLOCKED /\ rxLock = queueUNLOCKED
    BY <1>5, NotLocked DEF Counted, TypeOK
  <2> QED
    BY <1>2, <1>5, <2>1, NotLockedNext DEF TypeOK
<1>8. OwnList'
  BY <1>3, <1>4, <1>6, OwnListKept DEF Counted, Kinds
<1>9. \A k \in Kinds : Lock(k)' = Lock(k) /\ Owed(k)' = Owed(k)
  BY <1>2 DEF Lock, Owed
<1>10. Saved(kind)'
  <2>1. t \notin Coming(kind)
    BY <1>1 DEF Coming
  <2>2. Coming(kind) \subseteq Coming(kind)'
    BY <1>3, <1>6, <2>1, ComingOthers
  <2>3. \A u \in Tasks : event[u] = kind =>
          pc'[u] = pc[u] /\ call'[u] = call[u] /\ why'[u] = why[u]
    BY <1>3, <1>4 DEF Kinds
  <2> QED
    BY <1>1, <1>6, <1>9, <2>2, <2>3, WakeAndYieldWakes, SavedByWaking DEF Counted, Control
<1>11. Saved(other)'
  <2>1. why[t] # "expired"
    BY <1>2 DEF WhyAt, Serving
  <2>2. t \in Coming(other)
    BY <1>1, <1>2, <1>4, <2>1 DEF Coming, Kinds
  <2>3. Coming(other) \ {t} \subseteq Coming(other)'
    BY <1>3, <1>6 DEF Coming, NoneJoins
  <2> QED
    BY <1>1, <1>6, <1>9, <2>2, <2>3, SavedServed DEF Counted
<1>12. ASSUME NEW k \in Kinds PROVE k = kind \/ k = other
  BY <1>1 DEF Kinds
<1>13. \A k \in Kinds : Saved(k)'
  BY <1>10, <1>11, <1>12, Zenon
<1> QED
  BY <1>7, <1>8, <1>13 DEF Counted

\* prvUnlockQueue(), one of the two loops.
LEMMA UnlockCounts ==
  ASSUME IInv, IInv', Counted, NEW t \in Tasks, UnlockTx(t) \/ UnlockRx(t)
  PROVE  Counted'
<1> USE DEF IInv
<1>1. PICK kind, other \in Kinds :
        /\ kind # other
        /\ WakeMany(kind, Lock(kind)) /\ Lock(kind) # queueUNLOCKED
        /\ Lock(kind)' = queueUNLOCKED /\ Lock(other)' = Lock(other)
  <2>1. CASE UnlockTx(t)
    <3>1. txLock # queueUNLOCKED
      BY <2>1 DEF UnlockTx, At, Counted, LockAt, LockHeld
    <3> QED
      BY <2>1, <3>1 DEF UnlockTx, Lock, Kinds
  <2>2. CASE UnlockRx(t)
    <3>1. rxLock # queueUNLOCKED
      BY <2>2 DEF UnlockRx, At, Counted, LockAt, LockHeld
    <3> QED
      BY <2>2, <3>1 DEF UnlockRx, Lock, Kinds
  <2> QED
    BY <2>1, <2>2
<1>2. /\ current = t /\ UNCHANGED <<current, count, call, why>>
      /\ pc[t] \in {"unlockTx", "unlockRx"} /\ pc'[t] \in {"unlockRx", "resume"}
      /\ \A u \in Tasks : u # t => pc'[u] = pc[u]
  BY DEF UnlockTx, UnlockRx, At, Goto, callVars, TypeOK
<1>3. NoneJoins
  BY <1>1 DEF WakeMany, NoneJoins, Kinds
<1>4. ASSUME NEW k \in Kinds PROVE Coming(k) \subseteq Coming(k)'
  BY <1>2, <1>3 DEF Coming, NoneJoins
<1>5. OwnList'
  BY <1>2, <1>3, OwnListKept DEF Counted
<1>6. LockAt'
  <2>1. CASE UnlockTx(t)
    <3>1. /\ pc'[t] = "unlockRx" /\ pc[t] = "unlockTx"
          /\ txLock' = queueUNLOCKED /\ rxLock' = rxLock
      BY <2>1 DEF UnlockTx, At, Goto, TypeOK
    <3> QED
      BY <1>2, <3>1 DEF Counted, LockAt, LockHeld
  <2>2. CASE UnlockRx(t)
    <3>1. /\ pc'[t] = "resume" /\ pc[t] = "unlockRx"
          /\ rxLock' = queueUNLOCKED /\ txLock' = txLock
      BY <2>2 DEF UnlockRx, At, Goto, TypeOK
    <3> QED
      BY <1>2, <3>1 DEF Counted, LockAt, LockHeld
  <2> QED
    BY <2>1, <2>2
<1>7. \A k \in Kinds : Placed(k)'
  <2>1. \A u \in Tasks : pc'[u] # "place"
    BY <1>2 DEF OneSuspends, Held
  <2> QED
    BY <2>1 DEF Placed
<1>8. \A k \in Kinds : Avail(k)' = Avail(k)
  BY <1>2 DEF Avail
<1>9. Saved(kind)'
  <2>1. \A u \in Awaiting(kind) : event'[u] # kind => u \in Coming(kind)'
    <3> SUFFICES ASSUME NEW u \in Tasks, event[u] = kind, event'[u] # kind
                 PROVE  u \in Coming(kind)'
      BY DEF Awaiting
    <3>1. call[u] = kind /\ why[u] # "expired"
          /\ pc[u] \notin {"suspend", "lock", "check", "test", "place"}
      BY WaitersCome DEF Counted, Control
    <3> QED
      BY <1>2, <3>1 DEF Coming
  <2> QED
    BY <1>1, <1>4, <1>8, <2>1, SavedUnlocked DEF Counted
<1>10. Saved(other)'
  <2>1. Owed(other)' = Owed(other)
    BY <1>1 DEF Owed
  <2>2. Owed(other)' >= Owed(other) /\ Avail(other)' <= Avail(other)
    BY <1>8, <2>1, CountTypes
  <2> QED
    BY <1>3, <1>4, <2>2, SavedKept DEF Counted
<1>11. ASSUME NEW k \in Kinds PROVE k = kind \/ k = other
  BY <1>1 DEF Kinds
<1>12. \A k \in Kinds : Saved(k)'
  BY <1>9, <1>10, <1>11, Zenon
<1> QED
  BY <1>5, <1>6, <1>7, <1>12 DEF Counted

\* vTaskPlaceOnEventList(), vTaskPlaceOnEventListRestricted()
LEMMA PlaceCounts ==
  ASSUME IInv, IInv', Counted, NEW t \in Tasks, Place(t)
  PROVE  Counted'
<1> USE DEF IInv
<1>1. /\ current = t /\ pc[t] = "place"
      /\ UNCHANGED <<current, queueVars, call, why>>
      /\ \A u \in Tasks : u # t => pc'[u] = pc[u] /\ event'[u] = event[u]
      /\ pc'[t] # "place"
  <2>1. pc' = [pc EXCEPT ![t] = "resume"] \/ pc' = [pc EXCEPT ![t] = "unlockTx"]
    BY Zenon DEF Place, Goto
  <2>2. event' = event \/ event' = [event EXCEPT ![t] = call[t]]
    BY Zenon DEF Place
  <2>3. current = t /\ pc[t] = "place" /\ UNCHANGED <<current, queueVars, call, why>>
    BY DEF Place, At, callVars
  <2> QED
    BY <2>1, <2>2, <2>3 DEF TypeOK
<1>2. \A k \in Kinds : /\ Avail(k)' = Avail(k) /\ Lock(k)' = Lock(k) /\ Owed(k)' = Owed(k)
                       /\ t \notin Coming(k)
  BY <1>1 DEF Avail, Lock, Owed, queueVars, Coming
<1>3. ASSUME NEW k \in Kinds PROVE Coming(k) \subseteq Coming(k)'
  BY <1>1, <1>2 DEF Coming
<1>4. \A k \in Kinds : Placed(k)'
  <2>1. \A u \in Tasks : pc'[u] # "place"
    BY <1>1 DEF OneSuspends, Held
  <2> QED
    BY <2>1 DEF Placed
<1>5. CASE call[t] = "delay"
  <2>1. event' = event /\ pc'[t] = "resume"
    BY <1>5 DEF Place, Goto, TypeOK
  <2>2. LockAt'
    BY <1>1, <1>5, <2>1 DEF Counted, LockAt, LockHeld, InCall, queueVars
  <2>3. OwnList' /\ NoneJoins
    BY <1>1, <2>1 DEF Counted, OwnList, NoneJoins
  <2>4. ASSUME NEW k \in Kinds PROVE Saved(k)'
    <3>1. Owed(k)' >= Owed(k) /\ Avail(k)' <= Avail(k)
      BY <1>2, CountTypes
    <3> QED
      BY <1>3, <2>3, <3>1, SavedKept DEF Counted
  <2> QED
    BY <1>4, <2>2, <2>3, <2>4 DEF Counted
<1>6. CASE call[t] # "delay"
  <2>1. call[t] \in Kinds
    BY <1>1, <1>6 DEF CallAt, Kinds, TypeOK
  <2>2. event'[t] = call[t] /\ pc'[t] = "unlockTx"
    BY <1>6 DEF Place, Goto, TypeOK
  <2>3. LockAt'
    BY <1>1, <2>1, <2>2 DEF Counted, LockAt, LockHeld, InCall, queueVars, Kinds
  <2>4. OwnList'
    BY <1>1, <2>1, <2>2 DEF Counted, OwnList
  <2>5. ASSUME NEW k \in Kinds PROVE Saved(k)'
    <3>1. CASE k = call[t]
      <4>1. Avail(k)' <= Lock(k)'
        BY <1>1, <1>2, <3>1 DEF Counted, Placed
      <4>2. Lock(k)' # queueUNLOCKED
        BY <1>1, <2>1, <1>2 DEF Counted, LockAt, LockHeld, InCall, Lock, Kinds
      <4>3. Avail(k)' <= Owed(k)'
        BY <4>1, <4>2 DEF Owed
      <4> QED
        BY <4>3, CountTypesNext DEF Saved
    <3>2. CASE k # call[t]
      <4>1. event'[t] # k /\ event[t] # k
        <5>1. list[t] = "ready"
          BY <1>1 DEF Blocked, Serving
        <5>2. event[t] = "none"
          BY <5>1 DEF NoneStranded
        <5> QED
          BY <2>2, <3>2, <5>2 DEF Kinds
      <4>2. Awaiting(k)' = Awaiting(k)
        BY <1>1, <4>1 DEF Awaiting
      <4>3. Cardinality(Coming(k)) <= Cardinality(Coming(k)')
        BY <1>3, CountTypesNext, FS_Subset
      <4> QED
        BY <1>2, <4>2, <4>3, CountTypes, CountTypesNext DEF Saved, Counted
    <3> QED
      BY <3>1, <3>2
  <2> QED
    BY <1>4, <2>3, <2>4, <2>5 DEF Counted
<1> QED
  BY <1>5, <1>6

LEMMA InitCounted == Init => Counted
<1> SUFFICES ASSUME Init PROVE Counted
  OBVIOUS
<1>1. current \in Tasks /\ \A t \in Tasks : pc[t] = "app" /\ event[t] = "none"
  BY DEF Init, FirstOf
<1>2. txLock = queueUNLOCKED /\ rxLock = queueUNLOCKED
  BY DEF Init
<1> QED
  BY <1>1, <1>2 DEF Counted, LockAt, LockHeld, OwnList, Saved, Placed, Awaiting, Kinds

LEMMA CountedStep == IInv /\ IInv' /\ Counted /\ [Next]_vars => Counted'
<1> SUFFICES ASSUME IInv, IInv', Counted, [Next]_vars PROVE Counted'
  OBVIOUS
<1> USE DEF IInv
<1>1. CASE TickInterrupt
  <2>1. NoneJoins
    BY <1>1, CountTickEases, EasedJoins DEF TickInterrupt
  <2>2. UNCHANGED <<queueVars, schedSuspended, pc, call, why>> /\ ~schedSuspended
    BY <1>1 DEF TickInterrupt
  <2> QED
    BY <2>1, <2>2, ComingKept, FreeStep
<1>2. CASE TickPended \/ UNCHANGED vars
  <2>1. UNCHANGED <<current, event, queueVars, pc, call, why>>
    BY <1>2 DEF TickPended, vars, listVars, callVars
  <2>2. \A k \in Kinds : /\ Awaiting(k)' = Awaiting(k) /\ Coming(k)' = Coming(k)
                         /\ Avail(k)' = Avail(k) /\ Lock(k)' = Lock(k) /\ Owed(k)' = Owed(k)
    BY <2>1 DEF Awaiting, Coming, Avail, Lock, Owed, queueVars
  <2>3. LockAt' /\ OwnList'
    BY <2>1 DEF Counted, LockAt, LockHeld, InCall, OwnList, queueVars
  <2>4. \A k \in Kinds : Saved(k)' /\ Placed(k)'
    BY <2>1, <2>2 DEF Counted, Saved, Placed
  <2> QED
    BY <2>3, <2>4 DEF Counted
<1>3. CASE SendFromISR \/ ReceiveFromISR
  BY <1>3, InterruptCounts
\* A step of the running task in which the queue is not locked, no message
\* moves and no list of waiters grows.
<1>4. ASSUME NEW t \in Tasks, current = t, pc[t] \notin Held,
             UNCHANGED <<queueVars, schedSuspended>>, NoneJoins,
             \A u \in Tasks : u # t => pc'[u] = pc[u] /\ call'[u] = call[u] /\ why'[u] = why[u],
             call'[t] = call[t] \/ call'[t] \notin Kinds \/ event[t] \notin Kinds,
             \A k \in Kinds : Avail(k) = 0 \/ (t \in Coming(k) => t \in Coming(k)')
      PROVE  Counted'
  <2>1. ~schedSuspended
    BY <1>4 DEF OneSuspends
  <2>2. \A k \in Kinds : Avail(k) = 0 \/ Coming(k) \subseteq Coming(k)'
    BY <1>4, ComingOthers
  <2>3. \A u \in Tasks : call'[u] = call[u] \/ call'[u] \notin Kinds \/ event[u] \notin Kinds
    BY <1>4
  <2> QED
    BY <1>4, <2>1, <2>2, <2>3, FreeStep
<1>5. ASSUME NEW t \in Tasks, CallQueue(t) \/ CallDelay(t) \/ Stop(t) PROVE Counted'
  <2>1. /\ current = t /\ pc[t] = "app" /\ UNCHANGED <<queueVars, schedSuspended, event>>
        /\ \A u \in Tasks : u # t => pc'[u] = pc[u] /\ call'[u] = call[u] /\ why'[u] = why[u]
    BY <1>5 DEF CallQueue, CallDelay, Begin, Stop, At, Goto, listVars, TypeOK
  <2>2. call[t] = "none" /\ event[t] = "none"
    BY <2>1 DEF CallAt, NoneStranded
  <2> QED
    BY <1>4, <2>1, <2>2 DEF Held, NoneJoins, Kinds, Coming
<1>6. ASSUME NEW t \in Tasks, NEW u \in Tasks, Resume(t, u) PROVE Counted'
  <2>1. /\ current = t /\ pc[t] = "app"
        /\ UNCHANGED <<queueVars, schedSuspended, event, pc, call, why>>
    BY <1>6 DEF Resume, At, callVars
  <2> QED
    BY <1>4, <2>1 DEF Held, NoneJoins, Coming
<1>7. ASSUME NEW t \in Tasks, Succeed(t) PROVE Counted'
  BY <1>7, SuccessCounts
\* A call that ends, or goes on, with none to wake.
<1>8. ASSUME NEW t \in Tasks, Return(t), current = t, pc[t] \notin Held,
             UNCHANGED <<queueVars, schedSuspended, event>>,
             \A k \in Kinds : Avail(k) = 0 \/ t \notin Coming(k)
      PROVE  Counted'
  <2>1. /\ call'[t] = "none"
        /\ \A u \in Tasks : u # t => pc'[u] = pc[u] /\ call'[u] = call[u] /\ why'[u] = why[u]
    BY <1>8 DEF Return, Goto, TypeOK
  <2> QED
    BY <1>4, <1>8, <2>1 DEF NoneJoins, Kinds
<1>9. ASSUME NEW t \in Tasks, Continue(t), current = t, pc[t] \notin Held,
             UNCHANGED <<queueVars, schedSuspended, event>>
      PROVE  Counted'
  <2>1. /\ call' = call /\ pc'[t] \in {"woken", "try"} /\ why'[t] = "none"
        /\ \A u \in Tasks : u # t => pc'[u] = pc[u] /\ call'[u] = call[u] /\ why'[u] = why[u]
    BY <1>9 DEF Continue, Goto, TypeOK
  <2>2. \A k \in Kinds : t \in Coming(k) => t \in Coming(k)'
    BY <1>9, <2>1 DEF Coming
  <2> QED
    BY <1>4, <1>9, <2>1, <2>2 DEF NoneJoins
\* At the first look at the queue a call is refused what is not there.
<1>10. ASSUME NEW t \in Tasks, pc[t] = "try", ~Possible(t), NEW k \in Kinds
       PROVE  Avail(k) = 0 \/ t \notin Coming(k)
  BY <1>10 DEF Possible, Avail, Coming, TypeOK, Kinds
<1>11. ASSUME NEW t \in Tasks, Refuse(t) PROVE Counted'
  <2>1. /\ Return(t) /\ current = t /\ pc[t] = "try" /\ ~Possible(t)
        /\ UNCHANGED <<queueVars, schedSuspended, event>>
    BY <1>11 DEF Refuse, At, listVars
  <2> QED
    BY <1>8, <1>10, <2>1 DEF Held
<1>12. ASSUME NEW t \in Tasks, Wait(t) PROVE Counted'
  <2>1. /\ current = t /\ pc[t] = "try" /\ ~Possible(t)
        /\ UNCHANGED <<queueVars, schedSuspended, event, call, why>>
        /\ \A u \in Tasks : u # t => pc'[u] = pc[u]
    BY <1>12 DEF Wait, At, Goto, listVars, TypeOK
  <2> QED
    BY <1>4, <1>10, <2>1 DEF Held, NoneJoins
<1>13. ASSUME NEW t \in Tasks, SuspendAll(t) PROVE Counted'
  <2>1. /\ current = t /\ pc[t] \in {"suspend", "delay"} /\ pc'[t] \in {"lock", "place"}
        /\ pc'[t] = "place" <=> pc[t] = "delay"
        /\ UNCHANGED <<current, queueVars, event, call>>
        /\ \A u \in Tasks : u # t => pc'[u] = pc[u] /\ why'[u] = why[u]
    BY <1>13 DEF SuspendAll, Goto, listVars, TypeOK
  <2>2. t \in Tasks /\ pc[t] = "delay" => call[t] = "delay"
    BY DEF CallAt
  <2>3. ~schedSuspended /\ txLock = queueUNLOCKED /\ rxLock = queueUNLOCKED
    BY <2>1, NotLocked DEF Counted, TypeOK, OneSuspends, Held
  <2>4. LockAt' /\ OwnList' /\ NoneJoins
    BY <2>1, <2>2, <2>3 DEF Counted, LockAt, LockHeld, InCall, OwnList, NoneJoins, queueVars
  <2>5. ASSUME NEW k \in Kinds PROVE Saved(k)'
    <3>1. t \notin Coming(k) \/ call[t] = "delay"
      BY <2>1, <2>2 DEF Coming
    <3>2. t \notin Coming(k)
      BY <3>1 DEF Coming, Kinds
    <3>3. Coming(k) \subseteq Coming(k)'
      BY <2>1, <2>4, <3>2, ComingOthers
    <3>4. Owed(k)' >= Owed(k) /\ Avail(k)' <= Avail(k)
      <4>1. Owed(k)' = Owed(k) /\ Avail(k)' = Avail(k)
        BY <2>1 DEF Owed, Avail, Lock, queueVars
      <4> QED
        BY <4>1, CountTypes
    <3> QED
      BY <2>4, <3>3, <3>4, SavedKept DEF Counted
  <2>6. \A k \in Kinds : Placed(k)'
    <3>1. \A u \in Tasks : pc'[u] = "place" => u = t /\ call'[t] = "delay"
      BY <2>1, <2>2 DEF OneSuspends, Held
    <3> QED
      BY <3>1 DEF Placed, Kinds
  <2> QED
    BY <2>4, <2>5, <2>6 DEF Counted
<1>14. ASSUME NEW t \in Tasks, LockQueue(t) PROVE Counted'
  <2>1. /\ current = t /\ pc[t] = "lock" /\ pc'[t] = "check"
        /\ UNCHANGED <<current, count, event, call, why>>
        /\ \A u \in Tasks : u # t => pc'[u] = pc[u]
    BY <1>14 DEF LockQueue, At, Goto, listVars, callVars, TypeOK
  <2>2. txLock = queueUNLOCKED /\ rxLock = queueUNLOCKED
    BY <2>1 DEF Counted, LockAt, LockHeld
  <2>3. txLock' = 0 /\ rxLock' = 0
    BY <1>14, <2>2 DEF LockQueue, queueLOCKED_UNMODIFIED
  <2>4. LockAt' /\ OwnList' /\ NoneJoins
    BY <2>1, <2>3 DEF Counted, LockAt, LockHeld, OwnList, NoneJoins, queueUNLOCKED
  <2>5. ASSUME NEW k \in Kinds PROVE Saved(k)'
    <3>1. Coming(k) \subseteq Coming(k)'
      BY <2>1 DEF Coming
    <3>2. Owed(k) = 0 /\ Owed(k)' = 0 /\ Avail(k)' = Avail(k)
      BY <2>1, <2>2, <2>3 DEF Owed, Lock, Avail, queueUNLOCKED
    <3>3. Owed(k)' >= Owed(k) /\ Avail(k)' <= Avail(k)
      BY <3>2, CountTypes
    <3> QED
      BY <2>4, <3>1, <3>3, SavedKept DEF Counted
  <2>6. \A k \in Kinds : Placed(k)'
    <3>1. \A u \in Tasks : pc'[u] # "place"
      BY <2>1 DEF OneSuspends, Held
    <3> QED
      BY <3>1 DEF Placed
  <2> QED
    BY <2>4, <2>5, <2>6 DEF Counted
\* The two looks at the call and the queue, with the queue locked.
<1>15. ASSUME NEW t \in Tasks, CheckForTimeOut(t) \/ TestAgain(t) PROVE Counted'
  <2>1. /\ current = t /\ pc[t] \in {"check", "test"} /\ pc'[t] \in {"test", "unlockTx", "place"}
        /\ UNCHANGED <<current, queueVars, event, call>>
        /\ \A u \in Tasks : u # t => pc'[u] = pc[u] /\ why'[u] = why[u]
    <3>1. CASE CheckForTimeOut(t)
      <4>1. PICK where \in {"test", "unlockTx"} : pc' = [pc EXCEPT ![t] = where]
        BY <3>1, Zenon DEF CheckForTimeOut, Goto
      <4>2. why' = why \/ why' = [why EXCEPT ![t] = "expired"]
        BY <3>1, Zenon DEF CheckForTimeOut
      <4> QED
        BY <3>1, <4>1, <4>2 DEF CheckForTimeOut, At, listVars, TypeOK
    <3>2. CASE TestAgain(t)
      BY <3>2 DEF TestAgain, At, Goto, listVars, TypeOK
    <3> QED
      BY <1>15, <3>1, <3>2
  <2>2. pc'[t] = "place" => ~Possible(t)
    <3>1. CASE CheckForTimeOut(t)
      BY <3>1 DEF CheckForTimeOut, Goto, TypeOK
    <3>2. CASE TestAgain(t)
      BY <3>2 DEF TestAgain, Goto, TypeOK
    <3> QED
      BY <1>15, <3>1, <3>2
  <2>3. call[t] \in Kinds
    BY <2>1 DEF CallAt, Kinds
  <2>4. LockAt' /\ OwnList' /\ NoneJoins
    BY <2>1, <2>3 DEF Counted, LockAt, LockHeld, InCall, OwnList, NoneJoins, queueVars, Kinds
  <2>5. \A k \in Kinds : Avail(k)' = Avail(k) /\ Lock(k)' = Lock(k) /\ Owed(k)' = Owed(k)
    BY <2>1 DEF Owed, Avail, Lock, queueVars
  <2>6. ASSUME NEW k \in Kinds PROVE Saved(k)'
    <3>1. t \notin Coming(k)
      BY <2>1 DEF Coming
    <3>2. Coming(k) \subseteq Coming(k)'
      BY <2>1, <2>4, <3>1, ComingOthers
    <3>3. Owed(k)' >= Owed(k) /\ Avail(k)' <= Avail(k)
      BY <2>5, CountTypes
    <3> QED
      BY <2>4, <3>2, <3>3, SavedKept DEF Counted
  <2>7. ASSUME NEW k \in Kinds PROVE Placed(k)'
    <3>1. SUFFICES ASSUME NEW u \in Tasks, pc'[u] = "place", call'[u] = k
                   PROVE  Avail(k)' <= Lock(k)'
      BY DEF Placed
    <3>2. u = t
      BY <2>1, <3>1 DEF OneSuspends, Held
    <3>3. Avail(k) = 0
      BY <2>1, <2>2, <2>3, <3>1, <3>2 DEF Possible, Avail, TypeOK, Kinds
    <3>4. Lock(k) # queueUNLOCKED
      BY <2>1 DEF Counted, LockAt, LockHeld, Lock
    <3> QED
      BY <2>5, <3>3, <3>4, CountTypes DEF queueUNLOCKED
  <2> QED
    BY <2>4, <2>6, <2>7 DEF Counted
<1>16. ASSUME NEW t \in Tasks, Place(t) PROVE Counted'
  BY <1>16, PlaceCounts
<1>17. ASSUME NEW t \in Tasks, UnlockTx(t) \/ UnlockRx(t) PROVE Counted'
  BY <1>17, UnlockCounts
<1>18. ASSUME NEW t \in Tasks, ResumeAll(t) PROVE Counted'
  <2>1. /\ current = t /\ pc[t] = "resume" /\ pc'[t] = "unwind" /\ schedSuspended' = FALSE
        /\ UNCHANGED <<current, queueVars, call, why>>
        /\ \A u \in Tasks : u # t => pc'[u] = pc[u]
    BY <1>18 DEF ResumeAll, At, Goto, callVars, TypeOK
  <2>2. NoneJoins
    BY <1>18, ResumeAllEases, EasedJoins
  <2>3. txLock = queueUNLOCKED /\ rxLock = queueUNLOCKED
    BY <2>1 DEF Counted, LockAt, LockHeld
  <2>4. LockAt' /\ \A k \in Kinds : Placed(k)'
    BY <2>1, <2>3, NotLockedNext DEF TypeOK, queueVars
  <2>5. OwnList'
    BY <2>1, <2>2, OwnListKept DEF Counted
  <2>6. ASSUME NEW k \in Kinds PROVE Saved(k)'
    <3>1. Coming(k) \subseteq Coming(k)'
      BY <2>1, <2>2 DEF Coming, NoneJoins
    <3>2. Owed(k)' = Owed(k) /\ Avail(k)' = Avail(k)
      BY <2>1 DEF Owed, Avail, Lock, queueVars
    <3>3. Owed(k)' >= Owed(k) /\ Avail(k)' <= Avail(k)
      BY <3>2, CountTypes
    <3> QED
      BY <2>2, <3>1, <3>3, SavedKept DEF Counted
  <2> QED
    BY <2>4, <2>5, <2>6 DEF Counted
<1>19. ASSUME NEW t \in Tasks, UnwindTick(t) PROVE Counted'
  <2>1. NoneJoins
    BY <1>19, CountTickEases, EasedJoins DEF UnwindTick
  <2>2. /\ UNCHANGED <<queueVars, schedSuspended, pc, call, why>>
        /\ current = t /\ pc[t] = "unwind"
    BY <1>19 DEF UnwindTick, At
  <2> QED
    BY <1>4, <2>1, <2>2 DEF Held, Coming, NoneJoins
<1>20. ASSUME NEW t \in Tasks, Resumed(t) PROVE Counted'
  <2>1. /\ current = t /\ pc[t] = "unwind"
        /\ UNCHANGED <<queueVars, schedSuspended, event>>
        /\ \/ Return(t) /\ why[t] = "expired"
           \/ Goto(t, "verdict") /\ UNCHANGED callVars
           \/ Goto(t, "yield") /\ UNCHANGED callVars
           \/ Continue(t)
    BY <1>20 DEF Resumed, At, listVars
  <2>2. CASE Return(t) /\ why[t] = "expired"
    <3>1. \A k \in Kinds : t \notin Coming(k)
      BY <2>2 DEF Coming
    <3> QED
      BY <1>8, <2>1, <2>2, <3>1 DEF Held
  <2>3. CASE (Goto(t, "verdict") \/ Goto(t, "yield")) /\ UNCHANGED callVars
    <3>1. /\ UNCHANGED <<call, why>> /\ pc'[t] \in {"verdict", "yield"}
          /\ \A u \in Tasks : u # t => pc'[u] = pc[u]
      BY <2>3 DEF Goto, callVars, TypeOK
    <3>2. \A k \in Kinds : t \in Coming(k) => t \in Coming(k)'
      BY <2>1, <3>1 DEF Coming
    <3> QED
      BY <1>4, <2>1, <3>1, <3>2 DEF Held, NoneJoins
  <2>4. CASE Continue(t)
    BY <1>9, <2>1, <2>4 DEF Held
  <2> QED
    BY <2>1, <2>2, <2>3, <2>4
<1>21. ASSUME NEW t \in Tasks, Yield(t) PROVE Counted'
  BY <1>9, <1>21 DEF Yield, At, Held
<1>22. ASSUME NEW t \in Tasks, Woken(t) PROVE Counted'
  <2>1. /\ Return(t) /\ current = t /\ pc[t] = "woken"
        /\ UNCHANGED <<queueVars, schedSuspended, event>>
    BY <1>22 DEF Woken, At, listVars
  <2>2. call[t] \notin Kinds
    BY <2>1 DEF CallAt, Kinds
  <2>3. \A k \in Kinds : t \notin Coming(k)
    BY <2>2 DEF Coming
  <2> QED
    BY <1>8, <2>1, <2>3 DEF Held
<1>23. ASSUME NEW t \in Tasks, Verdict(t) PROVE Counted'
  <2>1. /\ Return(t) \/ Continue(t)
        /\ current = t /\ pc[t] = "verdict"
        /\ UNCHANGED <<queueVars, schedSuspended, event>>
    BY <1>23 DEF Verdict, At, listVars
  <2>2. why[t] = "expired"
    BY <2>1 DEF WhyAt
  <2>3. \A k \in Kinds : t \notin Coming(k)
    BY <2>2 DEF Coming
  <2> QED
    BY <1>8, <1>9, <2>1, <2>3 DEF Held
<1>24. ASSUME NEW t \in Tasks, ResetUnblock(t) PROVE Counted'
  <2>1. /\ current = t /\ pc[t] = "reset" /\ pc'[t] = "yield"
        /\ UNCHANGED <<queueVars, schedSuspended, event, call, why>>
        /\ \A u \in Tasks : u # t => pc'[u] = pc[u]
    BY <1>24 DEF ResetUnblock, At, Goto, listVars, callVars, TypeOK
  <2>2. \A k \in Kinds : t \in Coming(k) => t \in Coming(k)'
    BY <2>1 DEF Coming
  <2> QED
    BY <1>4, <2>1, <2>2 DEF Held, NoneJoins
<1> QED
  BY <1>1, <1>2, <1>3, <1>5, <1>6, <1>7, <1>11, <1>12, <1>13, <1>14, <1>15, <1>16, <1>17,
     <1>18, <1>19, <1>20, <1>21, <1>22, <1>23, <1>24 DEF Next, Ask, Step

\* No wake-up is lost, in any state: the queue, unlocked, owes nobody, so the
\* one that is coming for what it has is on its way.
THEOREM WakeupsKept == Spec => []NoLostWakeup
<1>1. Spec => []Counted
  BY InitCounted, CountedStep, Inductive, PTL DEF Spec
<1>2. IInv /\ Counted => NoLostWakeup
  <2>1. ASSUME TypeOK, Counted, NEW kind \in Kinds, Lock(kind) = queueUNLOCKED,
               Avail(kind) > 0, Awaiting(kind) # {}
        PROVE  \E t \in Tasks : Trying(t, kind)
    <3>1. Cardinality(Coming(kind)) # 0
      BY <2>1, CountTypes DEF Counted, Saved, Owed
    <3>2. Coming(kind) # {}
      BY <3>1, FS_EmptySet
    <3> QED
      BY <3>2 DEF Coming, Trying
  <2> SUFFICES ASSUME IInv, Counted PROVE NoLostWakeup
    OBVIOUS
  <2>2. TypeOK
    BY DEF IInv
  <2>3. txLock = queueUNLOCKED /\ count > 0 /\ Awaiting("recv") # {}
          => \E t \in Tasks : Trying(t, "recv")
    BY <2>1, <2>2 DEF Lock, Avail, Kinds
  <2>4. rxLock = queueUNLOCKED /\ count < QLen /\ Awaiting("send") # {}
          => \E t \in Tasks : Trying(t, "send")
    BY <2>1, <2>2 DEF Lock, Avail, Kinds, TypeOK
  <2> QED
    BY <2>3, <2>4 DEF NoLostWakeup
<1> QED
  BY <1>1, <1>2, Inductive, PTL

-----------------------------------------------------------------------------
(* The refinement.                                                         *)

LEMMA InitRefines == Init => Box!Init
BY MaxIsTick DEF Init, Box!Init

LEMMA StepRefines == IInv /\ [Next]_vars => [Box!Next]_Box!vars
<1> SUFFICES ASSUME IInv, [Next]_vars PROVE [Box!Next]_Box!vars
  OBVIOUS
<1> DEFINE bcall == [t \in Tasks |-> IF call[t] \in {"send", "recv"} THEN call[t] ELSE "none"]
           blimited == {t \in Tasks : call[t] \in {"send", "recv"} /\ asked[t] # portMAX_DELAY}
<1> USE DEF queueVars, callVars, At
<1>1. \A t \in Tasks : call[t] \in {"none", "send", "recv", "delay", "stop"}
  BY DEF IInv, TypeOK
<1>2. TypeOK /\ Control
  BY DEF IInv, Control
\* Steps that end no queue call, start none and move no message.
<1>3. ASSUME UNCHANGED <<count, call, asked>> PROVE UNCHANGED Box!vars
  BY <1>3 DEF Box!vars
<1>4. ASSUME NEW t \in Tasks, call[t] \notin {"send", "recv"}, call'[t] \notin {"send", "recv"},
             \A u \in Tasks : u # t => call'[u] = call[u] /\ asked'[u] = asked[u],
             UNCHANGED count
      PROVE  UNCHANGED Box!vars
  <2>1. bcall' = bcall
    BY <1>4
  <2>2. blimited' = blimited
    BY <1>4
  <2> QED
    BY <1>4, <2>1, <2>2 DEF Box!vars
\* The end of a queue call.
<1>5. ASSUME NEW t \in Tasks, Return(t), call[t] \in {"send", "recv"} PROVE Box!End(t)
  <2>1. \A u \in Tasks : u # t => call'[u] = call[u] /\ asked'[u] = asked[u]
    BY <1>2, <1>5, ReturnOthers
  <2>2. call'[t] = "none"
    BY <1>2, <1>5 DEF Return, TypeOK
  <2>3. bcall' = [bcall EXCEPT ![t] = "none"]
    BY <2>1, <2>2
  <2>4. blimited' = blimited \ {t}
    BY <2>1, <2>2
  <2> QED
    BY <2>3, <2>4 DEF Box!End
<1>6. ASSUME NEW t \in Tasks, Return(t), call[t] \notin {"send", "recv"}, UNCHANGED count
      PROVE  UNCHANGED Box!vars
  <2>1. \A u \in Tasks : u # t => call'[u] = call[u] /\ asked'[u] = asked[u]
    BY <1>2, <1>6, ReturnOthers
  <2>2. call'[t] = "none"
    BY <1>2, <1>6 DEF Return, TypeOK
  <2> QED
    BY <1>4, <1>6, <2>1, <2>2
<1>7. CASE SendFromISR
  <2>1. Box!Interrupt
    BY <1>7 DEF SendFromISR, Box!Interrupt, Box!Put
  <2> QED
    BY <2>1 DEF Box!Next
<1>8. CASE ReceiveFromISR
  <2>1. Box!Interrupt
    BY <1>8 DEF ReceiveFromISR, Box!Interrupt, Box!Get
  <2> QED
    BY <2>1 DEF Box!Next
<1>9. ASSUME NEW t \in Tasks, CallQueue(t) PROVE Box!Next
  <2>1. PICK kind \in {"send", "recv"}, wait \in Waits[t] : Begin(t, kind, wait, "try")
    BY <1>9 DEF CallQueue
  <2>2. /\ pc[t] = "app" /\ call' = [call EXCEPT ![t] = kind]
        /\ asked' = [asked EXCEPT ![t] = wait] /\ UNCHANGED count
    BY <2>1 DEF Begin
  <2>3. call[t] = "none"
    BY <1>2, <2>2 DEF Control, CallAt
  <2>4. bcall' = [bcall EXCEPT ![t] = kind] /\ bcall[t] = "none"
    BY <1>2, <2>2, <2>3 DEF TypeOK
  <2>5. blimited' = IF wait # portMAX_DELAY THEN blimited \cup {t} ELSE blimited
    BY <1>2, <2>2, <2>3 DEF TypeOK
  <2>6. Box!Ask(t, kind, wait # portMAX_DELAY)
    BY <2>2, <2>4, <2>5 DEF Box!Ask
  <2> QED
    BY <2>6 DEF Box!Next
<1>10. ASSUME NEW t \in Tasks, CallDelay(t) \/ Stop(t) PROVE UNCHANGED Box!vars
  <2>1. /\ pc[t] = "app" /\ UNCHANGED count
        /\ call' = [call EXCEPT ![t] = "delay"] \/ call' = [call EXCEPT ![t] = "stop"]
        /\ \A u \in Tasks : u # t => asked'[u] = asked[u]
    BY <1>2, <1>10 DEF CallDelay, Begin, Stop, TypeOK
  <2>2. call[t] = "none"
    BY <1>2, <2>1 DEF Control, CallAt
  <2> QED
    BY <1>2, <1>4, <2>1, <2>2, SMTT(60) DEF TypeOK
<1>11. ASSUME NEW t \in Tasks, Succeed(t) PROVE Box!Next
  <2>1. pc[t] = "try" /\ Return(t) /\ Possible(t)
    BY <1>11 DEF Succeed
  <2>2. call[t] \in {"send", "recv"}
    BY <1>2, <2>1 DEF Control, CallAt
  <2>3. Box!End(t) /\ bcall[t] = call[t]
    BY <1>5, <2>1, <2>2
  <2>4. CASE call[t] = "send"
    <3>1. Box!Send(t)
      BY <1>11, <2>1, <2>3, <2>4 DEF Succeed, Possible, Box!Send, Box!Put
    <3> QED
      BY <3>1 DEF Box!Next
  <2>5. CASE call[t] = "recv"
    <3>1. Box!Recv(t)
      BY <1>11, <2>1, <2>3, <2>5 DEF Succeed, Possible, Box!Recv, Box!Get
    <3> QED
      BY <3>1 DEF Box!Next
  <2> QED
    BY <2>2, <2>4, <2>5
\* A call that ends without effect had a limit.
<1>12. ASSUME NEW t \in Tasks, Return(t), call[t] \in {"send", "recv"},
              asked[t] # portMAX_DELAY, UNCHANGED count
       PROVE  Box!Next
  <2>1. Box!GiveUp(t)
    BY <1>5, <1>12 DEF Box!GiveUp
  <2> QED
    BY <2>1 DEF Box!Next
<1>13. ASSUME NEW t \in Tasks, Refuse(t) PROVE Box!Next
  <2>1. pc[t] = "try" /\ ticks[t] = 0 /\ Return(t) /\ UNCHANGED count
    BY <1>13 DEF Refuse
  <2>2. call[t] \in {"send", "recv"} /\ asked[t] # portMAX_DELAY
    BY <1>2, <2>1, MaxIsTick DEF Control, CallAt, IInv, TimesOf, LimitOf
  <2> QED
    BY <1>12, <2>1, <2>2
<1>14. ASSUME NEW t \in Tasks, Woken(t) PROVE UNCHANGED Box!vars
  <2>1. pc[t] = "woken" /\ Return(t) /\ UNCHANGED count
    BY <1>14 DEF Woken
  <2>2. call[t] \notin {"send", "recv"}
    BY <1>2, <2>1 DEF Control, CallAt
  <2> QED
    BY <1>6, <2>1, <2>2
<1>15. ASSUME NEW t \in Tasks, Resumed(t) \/ Verdict(t) PROVE [Box!Next]_Box!vars
  <2>1. UNCHANGED count
    BY <1>15 DEF Resumed, Verdict
  <2>2. CASE Return(t)
    <3>1. why[t] = "expired"
      BY <1>2, <1>15, <2>2 DEF Resumed, Verdict, Control, WhyAt, Return, Continue, Goto, TypeOK
    <3>2. call[t] \in {"send", "recv"} /\ asked[t] # portMAX_DELAY
      BY <1>2, <3>1 DEF Control, WhyAt, IInv, TimesOf, ExpiryOf
    <3> QED
      BY <1>12, <2>1, <2>2, <3>2
  <2>3. CASE ~Return(t)
    <3>1. UNCHANGED <<call, asked>>
      BY <1>15, <2>3 DEF Resumed, Verdict, Continue
    <3> QED
      BY <1>3, <2>1, <3>1
  <2> QED
    BY <2>2, <2>3
<1>16. ASSUME NEW t \in Tasks, NEW u \in Tasks, Resume(t, u) PROVE UNCHANGED <<count, call, asked>>
  BY <1>16 DEF Resume
<1>17. ASSUME NEW t \in Tasks,
              \/ Wait(t) \/ SuspendAll(t) \/ LockQueue(t) \/ CheckForTimeOut(t) \/ TestAgain(t)
              \/ Place(t) \/ UnlockTx(t) \/ UnlockRx(t) \/ ResumeAll(t) \/ UnwindTick(t)
              \/ Yield(t) \/ ResetUnblock(t)
       PROVE  UNCHANGED <<count, call, asked>>
  BY <1>17 DEF Wait, SuspendAll, LockQueue, CheckForTimeOut, TestAgain, Place, UnlockTx,
               UnlockRx, ResumeAll, UnwindTick, Yield, Continue, ResetUnblock
<1>18. TickInterrupt \/ TickPended \/ UNCHANGED vars => UNCHANGED <<count, call, asked>>
  BY DEF TickInterrupt, TickPended, vars
<1> QED
  BY <1>3, <1>7, <1>8, <1>9, <1>10, <1>11, <1>13, <1>14, <1>15, <1>16, <1>17, <1>18
     DEF Next, Ask, Step

\* A queue of the kernel is a mailbox: each call takes effect once or not at
\* all, and one that ends without effect was given a time limit.
THEOREM RefinesMailbox == Spec => ImplementsMailbox
<1>1. Spec => Box!Spec
  BY InitRefines, StepRefines, Inductive, PTL DEF Spec, Box!Spec
<1> QED
  BY <1>1 DEF ImplementsMailbox
=============================================================================
