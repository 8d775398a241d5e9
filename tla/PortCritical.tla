---------------------------- MODULE PortCritical ----------------------------
(***************************************************************************)
(* Critical sections and context switches of the FreeRTOS port for the     *)
(* RISC-V (portable/GCC/RISCV: port.c, portasm.S), with the calls that     *)
(* make them hard: a kernel call that yields inside its critical section,  *)
(* the tick, and the MAC interrupt, whose handler enters the critical      *)
(* sections of the network stack.                                          *)
(*                                                                         *)
(* A task is what it is to the port: its depth of unfinished               *)
(* vPortEnterCritical() calls.  Which task runs next is the scheduler's    *)
(* choice and left open.  The handler runs on the stack of the task it     *)
(* interrupts, its host; a handler that finds no interrupt pending takes   *)
(* itself for a task (exec_within_isr()), and its post may yield.          *)
(***************************************************************************)
EXTENDS Naturals, FiniteSets

CONSTANTS
  Tasks,        \* the tasks of the kernel
  Main,         \* e51(), which creates them and starts the scheduler
  MaxDepth,     \* deepest nesting of critical sections in one task
  BootNesting   \* the initial uxCriticalNesting, 0xaaaaaaaa in the code

ASSUME MainAssumption  == Main \notin Tasks /\ IsFiniteSet(Tasks)
ASSUME DepthAssumption == MaxDepth \in Nat \ {0}
ASSUME BootAssumption  == BootNesting \in Nat \ {0}

VARIABLES
  running,     \* who executes when no trap handler does
  depth,       \* critical sections each context has entered and not left
  uxCriticalNesting,
  mie,         \* mstatus.MIE
  mip,         \* the interrupts pending
  trap,        \* "none" or where the MAC trap handler is
  trapDepth,   \* critical sections the trap handler is in
  host,        \* the context the handler interrupted
  mepc         \* where the mret of the handler goes

vars == <<running, depth, uxCriticalNesting, mie, mip, trap, trapDepth, host, mepc>>

handler == <<trap, trapDepth, host, mepc>>

Contexts == Tasks \cup {Main}

\* It is the handler that executes, not the task under it.  After a yield of
\* its own it is suspended with its host.
InHandler == trap # "none" /\ running = host

\* exec_within_isr(): looks at what is pending, not at where it executes.
ExecWithinIsr == mip # {}

TypeOK ==
  /\ running \in Contexts
  /\ depth \in [Contexts -> 0 .. MaxDepth]
  /\ uxCriticalNesting \in Nat
  /\ mie \in BOOLEAN /\ mip \subseteq {"external", "timer"}
  /\ trap \in {"none", "enter", "handler", "post", "yielded", "leave", "astray"}
  /\ trapDepth \in 0 .. MaxDepth
  /\ host \in Contexts /\ mepc \in {"task", "handler"}

Init ==
  /\ running = Main
  /\ depth = [t \in Contexts |-> 0]
  /\ uxCriticalNesting = BootNesting
  /\ mie = FALSE /\ mip = {}
  /\ trap = "none" /\ trapDepth = 0 /\ host = Main /\ mepc = "task"

\* What vPortEnterCritical() and vPortExitCritical() do to the machine.
Enter == mie' = FALSE /\ uxCriticalNesting' = uxCriticalNesting + 1

\* MUTANT: the count is tested before it is decremented.
ExitTestsFirst ==
  /\ uxCriticalNesting' = uxCriticalNesting - 1
  /\ mie' = IF uxCriticalNesting = 0 THEN TRUE ELSE mie

Exit ==
  /\ uxCriticalNesting' = uxCriticalNesting - 1
  /\ mie' = IF uxCriticalNesting' = 0 THEN TRUE ELSE mie

-----------------------------------------------------------------------------
(* Tasks, and e51() before there are any.                                  *)

\* taskENTER_CRITICAL(), sys_arch_protect()
EnterCritical ==
  /\ ~InHandler
  /\ depth[running] < MaxDepth
  /\ Enter
  /\ depth' = [depth EXCEPT ![running] = @ + 1]
  /\ UNCHANGED <<running, mip, handler>>

\* taskEXIT_CRITICAL(), sys_arch_unprotect()
ExitCritical ==
  /\ ~InHandler
  /\ depth[running] > 0
  /\ Exit
  /\ depth' = [depth EXCEPT ![running] = @ - 1]
  /\ UNCHANGED <<running, mip, handler>>

\* MUTANT: the return enables interrupts only if nobody is in a section.
RestoreByCount(t) == running' = t /\ mie' = (running = Main \/ uxCriticalNesting = 0)

\* portRESTORE_CONTEXT: the return enables interrupts, whoever is resumed.
Restore(t) == running' = t /\ mie' = TRUE

\* MUTANT: the nesting count is not reset when the scheduler starts.
StartSchedulerKeeps(t) ==
  /\ running = Main /\ depth[Main] = 0
  /\ Restore(t)
  /\ UNCHANGED <<depth, uxCriticalNesting, mip, handler>>

\* vTaskStartScheduler(): vPortSetupTimer() and the first task.
StartScheduler(t) ==
  /\ running = Main /\ depth[Main] = 0
  /\ uxCriticalNesting' = 0
  /\ Restore(t)
  /\ UNCHANGED <<depth, mip, handler>>

\* portYIELD(): from a blocking call, outside any critical section, or from
\* the critical section of xQueueGenericSend(), vTaskResume() and the like.
Yield(t) ==
  /\ ~InHandler /\ running \in Tasks
  /\ depth[running] <= 1
  /\ Restore(t)
  /\ UNCHANGED <<depth, uxCriticalNesting, mip, handler>>

-----------------------------------------------------------------------------
(* Traps.                                                                  *)

\* An interrupt becomes pending.  The PLIC holds the MAC's back from its
\* claim until its completion.
Raise(i) ==
  /\ i = "external" => trap = "none"
  /\ mip' = mip \cup {i}
  /\ UNCHANGED <<running, depth, uxCriticalNesting, mie, handler>>

\* TIMER_CMP_INT: the tick switches to a task that has become ready, or not.
\* It saves and restores mepc, so that it may interrupt the handler too.
Tick(t) ==
  /\ trap # "astray" /\ running \in Tasks
  /\ mie /\ "timer" \in mip
  /\ mip' = mip \ {"timer"}
  /\ Restore(t)
  /\ UNCHANGED <<depth, uxCriticalNesting, handler>>

\* The external interrupt is taken: the hart clears MIE.
MacTrap ==
  /\ trap = "none" /\ running \in Tasks
  /\ mie /\ "external" \in mip
  /\ mie' = FALSE
  /\ trap' = "enter" /\ host' = running
  /\ UNCHANGED <<running, depth, uxCriticalNesting, mip, trapDepth, mepc>>

\* MUTANT: the wrapper does not count the handler as a critical section.
MacEnterUncounted ==
  /\ trap = "enter"
  /\ trap' = "handler"
  /\ mip' = mip \ {"external"}
  /\ UNCHANGED <<running, depth, uxCriticalNesting, mie, trapDepth, host, mepc>>

\* PLIC_ClaimIRQ() takes the pending bit away, and the wrapper of the handler,
\* mac0_int_plic_IRQHandler(), counts it in ...
MacEnter ==
  /\ trap = "enter"
  /\ trap' = "handler"
  /\ mip' = mip \ {"external"}
  /\ uxCriticalNesting' = uxCriticalNesting + 1
  /\ UNCHANGED <<running, depth, mie, trapDepth, host, mepc>>

\* SYS_ARCH_PROTECT() and SYS_ARCH_UNPROTECT() of memp_malloc(), pbuf_alloc()
\* and pbuf_free(), called from the receive callback.
MacProtect ==
  /\ trap = "handler" /\ InHandler
  /\ trapDepth < MaxDepth
  /\ Enter
  /\ trapDepth' = trapDepth + 1
  /\ UNCHANGED <<running, depth, mip, trap, host, mepc>>

MacUnprotect ==
  /\ trap = "handler" /\ InHandler
  /\ trapDepth > 0
  /\ Exit
  /\ trapDepth' = trapDepth - 1
  /\ UNCHANGED <<running, depth, mip, trap, host, mepc>>

\* No pbuf is left: pbuf_pool_is_empty() posts with sys_mbox_trypost(), which
\* calls xQueueSendToBack(), the call of a task, unless something is pending.
MacPost ==
  /\ trap = "handler" /\ InHandler /\ trapDepth = 0
  /\ ~ExecWithinIsr
  /\ Enter
  /\ trap' = "post" /\ trapDepth' = 1
  /\ UNCHANGED <<running, depth, mip, host, mepc>>

\* The message has woken a better task: the handler yields, is resumed with
\* its host by the mret of portRESTORE_CONTEXT, and mepc stays as that wrote it.
MacYield(t) ==
  /\ trap = "post" /\ InHandler
  /\ trap' = "yielded" /\ mepc' = "handler"
  /\ Restore(t)
  /\ UNCHANGED <<depth, uxCriticalNesting, mip, trapDepth, host>>

MacPostEnd ==
  /\ trap \in {"post", "yielded"} /\ InHandler
  /\ Exit
  /\ trap' = "handler" /\ trapDepth' = 0
  /\ UNCHANGED <<running, depth, mip, host, mepc>>

\* ... and out,
MacLeave ==
  /\ trap = "handler" /\ InHandler /\ trapDepth = 0
  /\ trap' = "leave"
  /\ uxCriticalNesting' = uxCriticalNesting - 1
  /\ UNCHANGED <<running, depth, mie, mip, trapDepth, host, mepc>>

\* and, the interrupt completed, mret enables interrupts and goes where mepc
\* points: to the task, or back into the handler with the task's registers
\* and stack.  What the hart does then is not modelled: it ends there.
MacReturn ==
  /\ trap = "leave" /\ InHandler
  /\ trap' = IF mepc = "task" THEN "none" ELSE "astray"
  /\ mie' = TRUE
  /\ UNCHANGED <<running, depth, uxCriticalNesting, mip, trapDepth, host, mepc>>

-----------------------------------------------------------------------------
Next == \/ EnterCritical \/ ExitCritical
        \/ \E t \in Tasks : StartScheduler(t) \/ Yield(t) \/ Tick(t) \/ MacYield(t)
        \/ \E i \in {"external", "timer"} : Raise(i)
        \/ MacTrap \/ MacEnter \/ MacProtect \/ MacUnprotect
        \/ MacPost \/ MacPostEnd \/ MacLeave \/ MacReturn

Spec == Init /\ [][Next]_vars

(***************************************************************************)
(* Fairness.  Code goes on: whoever is in a section leaves it, and the     *)
(* handler gets on with its work, which is a frame or two and ends.  Tasks *)
(* block in the end; only the idle task never does, and it never runs      *)
(* with interrupts off, since a task suspended in its section is ready.    *)
(***************************************************************************)
HandlerGoesOn == MacEnter \/ MacUnprotect \/ MacPostEnd \/ MacReturn

Fairness ==
  /\ WF_vars(ExitCritical)
  /\ SF_vars(\E t \in Tasks : Yield(t))
  /\ WF_vars(HandlerGoesOn)
  /\ SF_vars(MacUnprotect /\ trapDepth' = 0) /\ SF_vars(MacLeave)

FairSpec == Spec /\ Fairness

-----------------------------------------------------------------------------
(* Properties.                                                             *)

\* The critical sections that contexts have entered and not left.
Sections == {s \in Contexts \X (1 .. MaxDepth) : s[2] <= depth[s[1]]}

TotalDepth == Cardinality(Sections)

\* MAC_isr() is between the two halves of its wrapper.
Wrapped == IF trap \in {"handler", "post", "yielded"} THEN 1 ELSE 0

(***************************************************************************)
(* The one nesting count of the port is the sum over all tasks of the      *)
(* critical sections they are in, suspended ones included, plus those of   *)
(* the MAC handler and its wrapper.  No switch loses or adds one, the      *)
(* handler's own yield included, so the count comes back to zero when      *)
(* everybody is out.                                                       *)
(***************************************************************************)
NestingIsTotal ==
  running \in Tasks => uxCriticalNesting = TotalDepth + trapDepth + Wrapped

(***************************************************************************)
(* Only its own yield opens the trap handler to interrupts: the network    *)
(* stack leaves critical sections inside it without enabling them, because *)
(* the wrapper has counted the handler itself as one.  (The yield does     *)
(* open it, and ruins its return: see ReturnsToTask.)                      *)
(***************************************************************************)
TrapNotReentered == trap # "none" /\ mie => mepc = "handler"

(***************************************************************************)
(* Interrupts stay off until the first task runs, whatever critical        *)
(* sections task creation enters and leaves (port.c, uxCriticalNesting:    *)
(* "initialised to a non zero value to ensure interrupts don't             *)
(* inadvertently become unmasked before the scheduler starts").            *)
(***************************************************************************)
MaskedUntilStart == running = Main => ~mie

(***************************************************************************)
(* When no task, running or suspended, is in a critical section,           *)
(* interrupts are on in the tasks.  It says nothing of the time somebody   *)
(* is: see HearsAgain and MaskedOnlyInside for that.                       *)
(***************************************************************************)
InterruptsComeBack ==
  running \in Tasks /\ trap = "none" /\ TotalDepth = 0 => mie

(***************************************************************************)
(* Once the scheduler has started the hart never stays deaf: whatever      *)
(* sections tasks are suspended in, and wherever the handler is, a return  *)
(* or a switch turns interrupts on again.                                  *)
(***************************************************************************)
HearsAgain == running \in Tasks ~> mie

(***************************************************************************)
(* What the code does not keep, and no run checks: that the handler        *)
(* returns to the task it has interrupted, with or without a context       *)
(* switch inside it (portasm.S, vPortYieldISR: "This causes the return to  *)
(* the tail of the ISR which restores the original task context and        *)
(* finally does the mret to get us back to the task").  After the claim    *)
(* nothing is pending, exec_within_isr() takes the handler for a task, and *)
(* its post yields by vPortYield instead: TLC finds it in nine steps.      *)
(***************************************************************************)
ReturnsToTask == trap # "astray"

(***************************************************************************)
(* Nor does it keep interrupts off for the task in the section only, for   *)
(* which the nesting count "has to be stored as part of the task context"  *)
(* (port.c).  The count is one for all tasks: a task that leaves its last  *)
(* section while another is suspended inside one goes on deaf, which TLC   *)
(* finds in five steps.  HearsAgain says that it comes to an end.          *)
(***************************************************************************)
MaskedOnlyInside ==
  running \in Tasks /\ trap = "none" /\ depth[running] = 0 => mie
=============================================================================
