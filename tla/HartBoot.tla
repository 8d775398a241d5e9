------------------------------ MODULE HartBoot ------------------------------
(***************************************************************************)
(* How the harts start (pse-blinky): entry.S parks every hart but the      *)
(* first in wfi, main_first_hart() (system_startup.c) wakes them one after *)
(* the other through in_wfi_indicator and the CLINT software interrupt,    *)
(* and u54_1_init_hal() (u54_1.c) puts hart 1 to sleep a second time,      *)
(* until e51_setup() (e51.c) has set up the peripherals both use.          *)
(*                                                                         *)
(* Harts run at their own speeds; a step is one access to what they share. *)
(* `csrw mip, zero` in entry.S changes nothing here: MSIP of mip is a      *)
(* read-only copy of the CLINT register.                                   *)
(***************************************************************************)
EXTENDS Naturals

CONSTANTS
  LAST_HART,  \* MPFS_HAL_LAST_HART; MPFS_HAL_FIRST_HART is 0
  Leftovers   \* what RAM may hold of an indicator before entry.S clears it

Marks == {"NONE", "IN_WFI", "PASSED_WFI"}

ASSUME LastHartAssumption  == LAST_HART \in Nat \ {0}
ASSUME LeftoversAssumption == Leftovers \subseteq Marks

Harts == 1 .. LAST_HART

VARIABLES
  boot,       \* where hart 0 is in main_first_hart() and e51_setup()
  hard_idx,   \* the hart it is waking
  msip,       \* CLINT->MSIP, per hart
  indicator,  \* in_wfi_indicator of each hart's HLS
  hart        \* where each other hart is

vars == <<boot, hard_idx, msip, indicator, hart>>

BootLabels == {"INIT_THREAD_PR", "CHECK_WFI", "SEND_WFI", "CHECK_WAKE", "RESEND",
               "setup", "sync", "application"}

\* "wfi" and "passing" are entry.S; "sleep" and "woken" are u54_n().
HartLabels == {"reset", "cleared", "wfi", "passing", "main_other_hart",
               "sleep", "woken", "application"}

TypeOK ==
  /\ boot \in BootLabels
  /\ hard_idx \in 1 .. LAST_HART + 1
  /\ msip \in [Harts -> BOOLEAN]
  /\ indicator \in [Harts -> Marks]
  /\ hart \in [Harts -> HartLabels]

\* Reset clears the CLINT but not the RAM the indicators are in.
Init ==
  /\ boot = "INIT_THREAD_PR"
  /\ hard_idx = 1
  /\ msip = [h \in Harts |-> FALSE]
  /\ indicator \in [Harts -> Leftovers]
  /\ hart = [h \in Harts |-> "reset"]

-----------------------------------------------------------------------------
(* Hart 0: the state machine of main_first_hart().                         *)

\* The loop's test and the choice of the hart's HLS.
InitThread ==
  /\ boot = "INIT_THREAD_PR"
  /\ boot' = IF hard_idx <= LAST_HART THEN "CHECK_WFI" ELSE "setup"
  /\ UNCHANGED <<hard_idx, msip, indicator, hart>>

\* MUTANT: it does not wait for the hart to be in wfi.
CheckWfiNot ==
  /\ boot = "CHECK_WFI"
  /\ boot' = "SEND_WFI"
  /\ UNCHANGED <<hard_idx, msip, indicator, hart>>

CheckWfi ==
  /\ boot = "CHECK_WFI"
  /\ indicator[hard_idx] = "IN_WFI"
  /\ boot' = "SEND_WFI"
  /\ UNCHANGED <<hard_idx, msip, indicator, hart>>

\* raise_soft_interrupt(h)
Raise(h) == msip' = [msip EXCEPT ![h] = TRUE]

SendWfi ==
  /\ boot = "SEND_WFI"
  /\ Raise(hard_idx)
  /\ boot' = "CHECK_WAKE"
  /\ UNCHANGED <<hard_idx, indicator, hart>>

\* The hart has left wfi: on to the next.
CheckWake ==
  /\ boot = "CHECK_WAKE"
  /\ indicator[hard_idx] = "PASSED_WFI"
  /\ boot' = "INIT_THREAD_PR"
  /\ hard_idx' = hard_idx + 1
  /\ UNCHANGED <<msip, indicator, hart>>

\* It has not, for more than 0x10 turns: wait_count is a delay of any length.
CheckStillWfi ==
  /\ boot = "CHECK_WAKE"
  /\ indicator[hard_idx] = "IN_WFI"
  /\ boot' = "RESEND"
  /\ UNCHANGED <<hard_idx, msip, indicator, hart>>

\* The interrupt raised on the strength of that reading.
Resend ==
  /\ boot = "RESEND"
  /\ Raise(hard_idx)
  /\ boot' = "CHECK_WAKE"
  /\ UNCHANGED <<hard_idx, indicator, hart>>

\* e51_setup(): the UART mutex, PLIC, GPIOs and UART0 are initialised ...
E51Setup ==
  /\ boot = "setup"
  /\ boot' = "sync"
  /\ UNCHANGED <<hard_idx, msip, indicator, hart>>

\* ... and hart 1, which waits for them, is woken.
E51Sync ==
  /\ boot = "sync"
  /\ Raise(1)
  /\ boot' = "application"
  /\ UNCHANGED <<hard_idx, indicator, hart>>

BootStep == \/ InitThread \/ CheckWfi \/ SendWfi \/ CheckWake
            \/ CheckStillWfi \/ Resend \/ E51Setup \/ E51Sync

-----------------------------------------------------------------------------
(* The other harts.                                                        *)

Goto(h, from, to) == hart[h] = from /\ hart' = [hart EXCEPT ![h] = to]
Mark(h, mark) == indicator' = [indicator EXCEPT ![h] = mark]

\* entry.S clears the stack, the HLS at its top included.
ClearStack(h) ==
  /\ Goto(h, "reset", "cleared")
  /\ Mark(h, "NONE")
  /\ UNCHANGED <<boot, hard_idx, msip>>

\* MUTANT: clearing mip does clear a software interrupt that came early.
ParkCleared(h) ==
  /\ Goto(h, "cleared", "wfi")
  /\ Mark(h, "IN_WFI")
  /\ msip' = [msip EXCEPT ![h] = FALSE]
  /\ UNCHANGED <<boot, hard_idx>>

\* MUTANT: the mark is not written (the HLS pointer in tp is lost).
ParkUnmarked(h) ==
  /\ Goto(h, "cleared", "wfi")
  /\ UNCHANGED <<boot, hard_idx, msip, indicator>>

Park(h) ==
  /\ Goto(h, "cleared", "wfi")
  /\ Mark(h, "IN_WFI")
  /\ UNCHANGED <<boot, hard_idx, msip>>

\* MUTANT: wfi may return at any time and mip is not read again.
WakeUnchecked(h) ==
  /\ Goto(h, "wfi", "passing")
  /\ UNCHANGED <<boot, hard_idx, msip, indicator>>

\* wfi returns, for whatever reason, and MSIP is found set.
Wake(h) ==
  /\ Goto(h, "wfi", "passing")
  /\ msip[h]
  /\ UNCHANGED <<boot, hard_idx, msip, indicator>>

PassWfi(h) ==
  /\ Goto(h, "passing", "main_other_hart")
  /\ Mark(h, "PASSED_WFI")
  /\ UNCHANGED <<boot, hard_idx, msip>>

\* clear_soft_interrupt()
ClearMsip(h) == msip' = [msip EXCEPT ![h] = FALSE]

\* u54_n(): clear what is pending, then sleep until the next interrupt,
Sleep(h) ==
  /\ Goto(h, "main_other_hart", "sleep")
  /\ ClearMsip(h)
  /\ UNCHANGED <<boot, hard_idx, indicator>>

WakeAgain(h) ==
  /\ Goto(h, "sleep", "woken")
  /\ msip[h]
  /\ UNCHANGED <<boot, hard_idx, msip, indicator>>

\* clear it and run the application (u54_1) or the idle loop (the others).
StartApplication(h) ==
  /\ Goto(h, "woken", "application")
  /\ ClearMsip(h)
  /\ UNCHANGED <<boot, hard_idx, indicator>>

HartStep(h) == \/ ClearStack(h) \/ Park(h) \/ Wake(h) \/ PassWfi(h)
               \/ Sleep(h) \/ WakeAgain(h) \/ StartApplication(h)

Next == BootStep \/ \E h \in Harts : HartStep(h)

Spec == Init /\ [][Next]_vars

\* Every hart runs: each is a processor of its own.
FairSpec == /\ Spec
            /\ WF_vars(BootStep)
            /\ \A h \in Harts : WF_vars(HartStep(h))

-----------------------------------------------------------------------------
(***************************************************************************)
(* When hart 0 leaves main_first_hart(), no hart is left behind in the     *)
(* wfi of entry.S, whatever the RAM held at reset: a mark hart 0 goes by   *)
(* was written by the hart in this boot.                                   *)
(***************************************************************************)
Parked(h) == hart[h] \in {"reset", "cleared", "wfi"}

NoHartLeftBehind ==
  /\ \A h \in Harts : h < hard_idx => ~Parked(h)
  /\ boot \in {"setup", "sync", "application"} => \A h \in Harts : ~Parked(h)

(***************************************************************************)
(* Harts are released one at a time: none leaves the wfi of entry.S before *)
(* hart 0 has come to it, even if a debugger makes wfi return early.       *)
(***************************************************************************)
ReleasedInTurn ==
  \A h \in Harts : ~Parked(h) =>
    \/ h < hard_idx
    \/ h = hard_idx /\ boot \in {"CHECK_WAKE", "RESEND"}

(***************************************************************************)
(* Once hart 0 has raised the software interrupt it stays pending until    *)
(* the hart has left wfi, even if it was raised on a stale mark before the *)
(* hart got there: CHECK_WAKE never needs its retry.                       *)
(***************************************************************************)
RetryNeverNeeded ==
  boot \in {"CHECK_WAKE", "RESEND"} /\ Parked(hard_idx) => msip[hard_idx]

\* Hart 0 always gets through the start-up of all harts to its application.
E51Starts == <>(boot = "application")

(***************************************************************************)
(* Not so: hart 1 runs its application, which takes the UART's mutex and   *)
(* writes to the UART, only after e51_setup() has initialised both.        *)
(***************************************************************************)
ApplicationAfterSetup ==
  hart[1] = "application" => boot \in {"sync", "application"}
=============================================================================
