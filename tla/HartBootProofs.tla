--------------------------- MODULE HartBootProofs ---------------------------
(***************************************************************************)
(* Safety of the start-up handshake, for any number of harts and whatever  *)
(* marks the RAM holds at reset.                                           *)
(***************************************************************************)
EXTENDS HartBoot, TLAPS

(***************************************************************************)
(* The inductive invariant: the properties, the range of hard_idx in each  *)
(* state of hart 0, what each hart's mark says once the hart has cleared   *)
(* it, and what hart 0 knows of a mark it has gone by: if the hart has not *)
(* cleared it yet it is a stale IN_WFI, so a PASSED_WFI is the hart's own. *)
(***************************************************************************)
Waking   == boot \in {"CHECK_WFI", "SEND_WFI", "CHECK_WAKE", "RESEND"}
SeenMark == boot \in {"SEND_WFI", "CHECK_WAKE", "RESEND"}
Done     == boot \in {"setup", "sync", "application"}

IndexInv == /\ Waking => hard_idx \in Harts
            /\ Done => hard_idx = LAST_HART + 1

MarkInv ==
  \A h \in Harts :
    /\ hart[h] = "cleared" => indicator[h] = "NONE"
    /\ hart[h] \in {"wfi", "passing"} => indicator[h] = "IN_WFI"
    /\ hart[h] = "reset" /\ SeenMark /\ h = hard_idx => indicator[h] = "IN_WFI"

\* A hart in the wfi of entry.S has an interrupt only if hart 0 is at it.
PendingInv ==
  \A h \in Harts : Parked(h) /\ msip[h] =>
    h = hard_idx /\ boot \in {"CHECK_WAKE", "RESEND"}

IInv == /\ TypeOK /\ IndexInv /\ MarkInv /\ PendingInv
        /\ NoHartLeftBehind /\ ReleasedInTurn /\ RetryNeverNeeded

USE LastHartAssumption, LeftoversAssumption

LEMMA InitIInv == Init => IInv
<1> SUFFICES ASSUME Init PROVE IInv
  OBVIOUS
<1>1. TypeOK
  <2>1. indicator \in [Harts -> Marks]
    BY DEF Init
  <2>2. msip \in [Harts -> BOOLEAN] /\ hart \in [Harts -> HartLabels]
    BY DEF Init, HartLabels
  <2>3. boot \in BootLabels /\ hard_idx \in 1 .. LAST_HART + 1
    BY DEF Init, BootLabels
  <2> QED
    BY <2>1, <2>2, <2>3 DEF TypeOK
<1>2. IndexInv /\ MarkInv /\ PendingInv
  BY DEF Init, IndexInv, MarkInv, PendingInv, Parked, Waking, SeenMark, Done, Harts
<1>3. NoHartLeftBehind /\ ReleasedInTurn /\ RetryNeverNeeded
  BY DEF Init, NoHartLeftBehind, ReleasedInTurn, RetryNeverNeeded, Parked, Harts
<1> QED
  BY <1>1, <1>2, <1>3 DEF IInv

LEMMA NextIInv == IInv /\ [Next]_vars => IInv'
<1> SUFFICES ASSUME IInv, [Next]_vars PROVE IInv'
  OBVIOUS
<1> USE DEF IInv, TypeOK, IndexInv, MarkInv, PendingInv, Waking, SeenMark, Done, Parked,
            NoHartLeftBehind, ReleasedInTurn, RetryNeverNeeded, Harts
<1>1. CASE InitThread
  BY <1>1 DEF InitThread, BootLabels
<1>2. CASE CheckWfi
  BY <1>2 DEF CheckWfi, BootLabels
<1>3. CASE SendWfi
  BY <1>3 DEF SendWfi, Raise, BootLabels
<1>4. CASE CheckWake
  BY <1>4 DEF CheckWake, BootLabels
<1>5. CASE CheckStillWfi
  BY <1>5 DEF CheckStillWfi, BootLabels
<1>6. CASE Resend
  BY <1>6 DEF Resend, Raise, BootLabels
<1>7. CASE E51Setup
  BY <1>7 DEF E51Setup, BootLabels
<1>8. CASE E51Sync
  BY <1>8 DEF E51Sync, Raise, BootLabels
<1>9. ASSUME NEW h \in Harts, ClearStack(h) PROVE IInv'
  BY <1>9 DEF ClearStack, Goto, Mark, HartLabels, Marks
<1>10. ASSUME NEW h \in Harts, Park(h) PROVE IInv'
  BY <1>10 DEF Park, Goto, Mark, HartLabels, Marks
<1>11. ASSUME NEW h \in Harts, Wake(h) PROVE IInv'
  BY <1>11 DEF Wake, Goto, HartLabels
<1>12. ASSUME NEW h \in Harts, PassWfi(h) PROVE IInv'
  BY <1>12 DEF PassWfi, Goto, Mark, HartLabels, Marks
<1>13. ASSUME NEW h \in Harts, Sleep(h) PROVE IInv'
  BY <1>13 DEF Sleep, Goto, ClearMsip, HartLabels
<1>14. ASSUME NEW h \in Harts, WakeAgain(h) PROVE IInv'
  BY <1>14 DEF WakeAgain, Goto, HartLabels
<1>15. ASSUME NEW h \in Harts, StartApplication(h) PROVE IInv'
  BY <1>15 DEF StartApplication, Goto, ClearMsip, HartLabels
<1>16. CASE UNCHANGED vars
  BY <1>16 DEF vars
<1> QED
  BY <1>1, <1>2, <1>3, <1>4, <1>5, <1>6, <1>7, <1>8, <1>9, <1>10, <1>11, <1>12,
     <1>13, <1>14, <1>15, <1>16 DEF Next, BootStep, HartStep

\* The invariant holds in every state the start-up reaches.
THEOREM Inductive == Spec => []IInv
<1>1. Init => IInv
  BY InitIInv
<1>2. IInv /\ [Next]_vars => IInv'
  BY NextIInv
<1> QED
  BY <1>1, <1>2, PTL DEF Spec

\* Every variable keeps to its range; hard_idx never runs past the last hart.
THEOREM TypeCorrect == Spec => []TypeOK
<1>1. IInv => TypeOK
  BY DEF IInv
<1> QED
  BY <1>1, Inductive, PTL

\* main_first_hart() returns only when no hart is left in entry.S, however
\* many harts there are and whatever the RAM held.
THEOREM NoneLeftBehind == Spec => []NoHartLeftBehind
<1>1. IInv => NoHartLeftBehind
  BY DEF IInv
<1> QED
  BY <1>1, Inductive, PTL

\* No hart leaves the wfi of entry.S before its turn.
THEOREM Released == Spec => []ReleasedInTurn
<1>1. IInv => ReleasedInTurn
  BY DEF IInv
<1> QED
  BY <1>1, Inductive, PTL

\* The first interrupt is never lost, so CHECK_WAKE's second is redundant.
THEOREM OneInterruptEnough == Spec => []RetryNeverNeeded
<1>1. IInv => RetryNeverNeeded
  BY DEF IInv
<1> QED
  BY <1>1, Inductive, PTL
=============================================================================
