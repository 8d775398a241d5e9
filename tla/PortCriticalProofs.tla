------------------------- MODULE PortCriticalProofs -------------------------
(***************************************************************************)
(* Safety of the port's critical sections, for any tasks, any nesting and  *)
(* any initial count.                                                      *)
(***************************************************************************)
EXTENDS PortCritical, FiniteSetTheorems, TLAPS

(***************************************************************************)
(* The inductive invariant.  Before the scheduler starts, the count is     *)
(* the initial one and the sections e51() is in; from then on it is the    *)
(* sections everybody is in, and decides whether interrupts are on, except *)
(* that a switch turns them on whatever it is.  A handler that is not the  *)
(* one to execute has yielded, and only such a one is open to interrupts.  *)
(***************************************************************************)
HandlerInv ==
  /\ running = Main => trap = "none"
  /\ trap \in {"post", "yielded"} => trapDepth = 1
  /\ trap \in {"none", "enter", "leave", "astray"} => trapDepth = 0
  /\ trap # "none" => host \in Tasks
  /\ trap = "none" => mepc = "task"
  /\ trap # "none" /\ running # host => mepc = "handler"
  /\ TrapNotReentered

\* e51() counts on top of BootNesting, which is not zero.
BootInv ==
  running = Main =>
    /\ ~mie
    /\ uxCriticalNesting = BootNesting + depth[Main]
    /\ \A t \in Tasks : depth[t] = 0

StartedInv == running # Main => depth[Main] = 0

IInv == TypeOK /\ HandlerInv /\ BootInv /\ StartedInv /\ NestingIsTotal /\ InterruptsComeBack

USE MainAssumption, DepthAssumption, BootAssumption

-----------------------------------------------------------------------------
(* Counting critical sections.                                             *)

LEMMA SectionsFinite == IsFiniteSet(Sections) /\ TotalDepth \in Nat
<1>1. IsFiniteSet(Contexts)
  BY FS_AddElement DEF Contexts
<1>2. IsFiniteSet(1 .. MaxDepth)
  BY FS_Interval
<1>3. IsFiniteSet(Contexts \X (1 .. MaxDepth))
  BY <1>1, <1>2, FS_Product
<1>4. IsFiniteSet(Sections)
  BY <1>3, FS_Subset DEF Sections
<1> QED
  BY <1>4, FS_CardinalityType DEF TotalDepth

\* Entering a section adds one.
LEMMA OneMore ==
  ASSUME TypeOK, NEW t \in Contexts, depth[t] < MaxDepth,
         depth' = [depth EXCEPT ![t] = @ + 1]
  PROVE  TotalDepth' = TotalDepth + 1
<1> DEFINE s == <<t, depth[t] + 1>>
<1>1. depth[t] \in 0 .. MaxDepth
  BY DEF TypeOK
<1>2. s \notin Sections
  BY <1>1 DEF Sections
<1>3. Sections' = Sections \cup {s}
  <2>1. ASSUME NEW x \in Contexts, NEW i \in 1 .. MaxDepth
        PROVE  i <= depth'[x] <=> i <= depth[x] \/ (x = t /\ i = depth[t] + 1)
    BY <1>1 DEF TypeOK
  <2>2. s \in Contexts \X (1 .. MaxDepth)
    BY <1>1
  <2> QED
    BY <2>1, <2>2 DEF Sections
<1> QED
  BY <1>2, <1>3, SectionsFinite, FS_AddElement DEF TotalDepth

\* Leaving one takes it away.
LEMMA OneLess ==
  ASSUME TypeOK, NEW t \in Contexts, depth[t] > 0,
         depth' = [depth EXCEPT ![t] = @ - 1]
  PROVE  TotalDepth' = TotalDepth - 1 /\ TotalDepth' \in Nat
<1> DEFINE s == <<t, depth[t]>>
<1>1. depth[t] \in 0 .. MaxDepth
  BY DEF TypeOK
<1>2. s \in Sections
  BY <1>1 DEF Sections
<1>3. Sections' = Sections \ {s}
  <2>1. ASSUME NEW x \in Contexts, NEW i \in 1 .. MaxDepth
        PROVE  i <= depth'[x] <=> i <= depth[x] /\ ~(x = t /\ i = depth[t])
    BY <1>1 DEF TypeOK
  <2> QED
    BY <2>1 DEF Sections
<1>4. IsFiniteSet(Sections')
  BY <1>3, SectionsFinite, FS_RemoveElement
<1> QED
  BY <1>2, <1>3, <1>4, SectionsFinite, FS_RemoveElement, FS_CardinalityType DEF TotalDepth

\* Nobody is in a section where nobody's depth says so.
LEMMA NoneInside ==
  ASSUME TypeOK, \A t \in Contexts : depth[t] = 0
  PROVE  TotalDepth = 0
<1>1. Sections = {}
  BY DEF Sections
<1> QED
  BY <1>1, FS_EmptySet DEF TotalDepth

LEMMA SameDepth == UNCHANGED depth => TotalDepth' = TotalDepth
BY DEF TotalDepth, Sections

-----------------------------------------------------------------------------
LEMMA InitIInv == Init => IInv
<1> SUFFICES ASSUME Init PROVE IInv
  OBVIOUS
<1>1. TypeOK
  <2>1. depth \in [Contexts -> 0 .. MaxDepth]
    BY DEF Init
  <2>2. running \in Contexts /\ uxCriticalNesting \in Nat /\ mie \in BOOLEAN
    BY DEF Init, Contexts
  <2>3. /\ mip \subseteq {"external", "timer"} /\ trap = "none"
        /\ trapDepth \in 0 .. MaxDepth /\ host \in Contexts /\ mepc = "task"
    BY DEF Init, Contexts
  <2> QED
    BY <2>1, <2>2, <2>3 DEF TypeOK
<1>4. HandlerInv /\ StartedInv
  BY DEF Init, HandlerInv, StartedInv, TrapNotReentered
<1>2. BootInv
  BY DEF Init, Contexts, BootInv
<1>3. NestingIsTotal /\ InterruptsComeBack
  BY DEF Init, NestingIsTotal, InterruptsComeBack
<1> QED
  BY <1>1, <1>2, <1>3, <1>4 DEF IInv

LEMMA NextIInv == IInv /\ [Next]_vars => IInv'
<1> SUFFICES ASSUME IInv, [Next]_vars PROVE IInv'
  OBVIOUS
<1>0. TotalDepth \in Nat /\ TypeOK
  BY SectionsFinite DEF IInv
<1> USE <1>0 DEF IInv, TypeOK, HandlerInv, BootInv, StartedInv, NestingIsTotal,
                 InterruptsComeBack, TrapNotReentered, InHandler, Wrapped, handler, Contexts
<1>1. CASE EnterCritical
  <2>1. TotalDepth' = TotalDepth + 1
    BY <1>1, OneMore DEF EnterCritical
  <2>2. /\ uxCriticalNesting' = uxCriticalNesting + 1 /\ mie' = FALSE
        /\ UNCHANGED <<running, mip, trap, trapDepth, host, mepc>>
        /\ running \in Contexts
        /\ depth[running] \in 0 .. MaxDepth - 1
        /\ depth' = [depth EXCEPT ![running] = depth[running] + 1]
    BY <1>1 DEF EnterCritical, Enter
  <2>3. TypeOK'
    <3>1. depth' \in [Contexts -> 0 .. MaxDepth]
      <4> HIDE DEF Contexts
      <4> QED
        BY <2>2
    <3>2. uxCriticalNesting' \in Nat
      BY <2>2
    <3>3. mie' \in BOOLEAN
      BY <2>2
    <3> QED
      BY <2>2, <3>1, <3>2, <3>3
  <2>4. HandlerInv'
    BY <2>2
  <2>5. BootInv' /\ StartedInv'
    BY <2>2
  <2>6. NestingIsTotal' /\ InterruptsComeBack'
    BY <2>1, <2>2
  <2> QED
    BY <2>3, <2>4, <2>5, <2>6
<1>2. CASE ExitCritical
  <2>1. TotalDepth' = TotalDepth - 1 /\ TotalDepth' \in Nat
    BY <1>2, OneLess DEF ExitCritical
  <2>2. /\ uxCriticalNesting' = uxCriticalNesting - 1
        /\ UNCHANGED <<running, mip, trap, trapDepth, host, mepc>>
        /\ trap = "none" \/ running # host
        /\ running \in Contexts
        /\ depth[running] \in 1 .. MaxDepth
        /\ depth' = [depth EXCEPT ![running] = depth[running] - 1]
    BY <1>2 DEF ExitCritical, Exit
  <2>3. (uxCriticalNesting' = 0 => mie' = TRUE) /\ (uxCriticalNesting' # 0 => mie' = mie)
    BY <1>2 DEF ExitCritical, Exit
  <2>4. running \in Tasks => uxCriticalNesting = TotalDepth + trapDepth + Wrapped
    BY Zenon DEF Wrapped
  <2>5. TypeOK'
    <3>1. uxCriticalNesting' \in Nat
      BY <2>1, <2>2, <2>4
    <3>2. mie' \in BOOLEAN
      BY <2>3
    <3>3. depth' \in [Contexts -> 0 .. MaxDepth]
      <4> HIDE DEF Contexts
      <4> QED
        BY <2>2
    <3> QED
      BY <2>2, <3>1, <3>2, <3>3
  <2>6. HandlerInv'
    BY <2>2
  <2>7. BootInv' /\ StartedInv'
    <3>1. CASE running = Main
      <4>1. uxCriticalNesting' = BootNesting + depth'[Main] /\ uxCriticalNesting' # 0
        BY <2>2, <3>1
      <4> QED
        BY <2>2, <2>3, <3>1, <4>1
    <3>2. CASE running # Main
      BY <2>2, <3>2
    <3> QED
      BY <3>1, <3>2
  <2>8. NestingIsTotal' /\ InterruptsComeBack'
    <3>1. NestingIsTotal'
      BY <2>1, <2>2, <2>4
    <3>2. InterruptsComeBack'
      BY <2>1, <2>2, <2>3, <2>4
    <3> QED
      BY <3>1, <3>2
  <2> QED
    BY <2>5, <2>6, <2>7, <2>8
<1>3. ASSUME NEW t \in Tasks, StartScheduler(t) PROVE IInv'
  <2>1. TotalDepth' = TotalDepth /\ TotalDepth = 0
    BY <1>3, SameDepth, NoneInside DEF StartScheduler
  <2> QED
    BY <1>3, <2>1 DEF StartScheduler, Restore
<1>4. ASSUME NEW t \in Tasks, Yield(t) \/ Tick(t) PROVE IInv'
  <2>1. TotalDepth' = TotalDepth
    BY <1>4, SameDepth DEF Yield, Tick
  <2> QED
    BY <1>4, <2>1 DEF Yield, Tick, Restore
<1>5. ASSUME NEW t \in Tasks, MacYield(t) PROVE IInv'
  <2>1. TotalDepth' = TotalDepth
    BY <1>5, SameDepth DEF MacYield
  <2> QED
    BY <1>5, <2>1 DEF MacYield, Restore
<1>6. ASSUME NEW i \in {"external", "timer"}, Raise(i) PROVE IInv'
  <2>1. TotalDepth' = TotalDepth
    BY <1>6, SameDepth DEF Raise
  <2> QED
    BY <1>6, <2>1 DEF Raise
<1>7. CASE MacTrap \/ MacEnter \/ MacLeave \/ MacReturn \/ UNCHANGED vars
  <2>1. TotalDepth' = TotalDepth
    BY <1>7, SameDepth DEF MacTrap, MacEnter, MacLeave, MacReturn, vars
  <2>2. CASE MacTrap
    BY <2>1, <2>2 DEF MacTrap
  <2>3. CASE MacEnter
    BY <2>1, <2>3 DEF MacEnter
  <2>4. CASE MacLeave
    BY <2>1, <2>4 DEF MacLeave
  <2>5. CASE MacReturn
    BY <2>1, <2>5 DEF MacReturn
  <2>6. CASE UNCHANGED vars
    BY <2>1, <2>6 DEF vars
  <2> QED
    BY <1>7, <2>2, <2>3, <2>4, <2>5, <2>6
\* The handler enters a section, its own or that of its post.
<1>8. CASE MacProtect \/ MacPost
  <2>1. /\ uxCriticalNesting' = uxCriticalNesting + 1 /\ mie' = FALSE
        /\ trapDepth' = trapDepth + 1 /\ trapDepth < MaxDepth
        /\ trap = "handler" /\ running = host
        /\ trap' \in {"handler", "post"} /\ (trap' = "post" => trapDepth' = 1)
        /\ UNCHANGED <<running, depth, mip, host, mepc>>
    <3>1. CASE MacProtect
      BY <3>1 DEF MacProtect, Enter
    <3>2. CASE MacPost
      BY <3>2 DEF MacPost, Enter
    <3> QED
      BY <1>8, <3>1, <3>2
  <2>2. TotalDepth' = TotalDepth
    BY <2>1, SameDepth
  <2>3. running \in Tasks /\ running # Main
    BY <2>1
  <2>4. trapDepth' \in 0 .. MaxDepth /\ uxCriticalNesting' \in Nat /\ mie' = FALSE
    BY <2>1
  <2>5. TypeOK'
    BY <2>1, <2>3, <2>4
  <2>6. HandlerInv'
    BY <2>1, <2>3, <2>4
  <2>7. BootInv' /\ StartedInv'
    BY <2>1, <2>3
  <2>8. NestingIsTotal' /\ InterruptsComeBack'
    BY <2>1, <2>2, <2>3
  <2> QED
    BY <2>5, <2>6, <2>7, <2>8
\* The handler leaves one: its wrapper keeps the count above zero.
<1>9. CASE MacUnprotect \/ MacPostEnd
  <2>1. /\ uxCriticalNesting' = uxCriticalNesting - 1
        /\ trapDepth' = trapDepth - 1 /\ trapDepth > 0
        /\ trap \in {"handler", "post", "yielded"} /\ trap' = "handler" /\ running = host
        /\ UNCHANGED <<running, depth, mip, host, mepc>>
    <3>1. CASE MacUnprotect
      BY <3>1 DEF MacUnprotect, Exit
    <3>2. CASE MacPostEnd
      BY <3>2 DEF MacPostEnd, Exit
    <3> QED
      BY <1>9, <3>1, <3>2
  <2>2. TotalDepth' = TotalDepth
    BY <2>1, SameDepth
  <2>3. running \in Tasks /\ running # Main
    BY <2>1
  <2>4. uxCriticalNesting = TotalDepth + trapDepth + 1
    BY <2>1, <2>3, Zenon DEF Wrapped
  <2>5. uxCriticalNesting' \in Nat \ {0}
    BY <2>1, <2>4
  <2>6. mie' = mie
    BY <1>9, <2>5 DEF MacUnprotect, MacPostEnd, Exit
  <2>7. TypeOK' /\ HandlerInv' /\ BootInv' /\ StartedInv'
    BY <2>1, <2>3, <2>5, <2>6
  <2>8. NestingIsTotal' /\ InterruptsComeBack'
    BY <2>1, <2>2, <2>3, <2>4
  <2> QED
    BY <2>7, <2>8
<1> QED
  BY <1>1, <1>2, <1>3, <1>4, <1>5, <1>6, <1>7, <1>8, <1>9 DEF Next

\* The invariant holds in every state of the port.
THEOREM Inductive == Spec => []IInv
BY InitIInv, NextIInv, PTL DEF Spec

\* The state keeps its types: the nesting count never goes below zero, where
\* interrupts would stay off for ever.
THEOREM TypeCorrect == Spec => []TypeOK
<1>1. IInv => TypeOK
  BY DEF IInv
<1> QED
  BY <1>1, Inductive, PTL

\* One count serves all tasks and the handler: it is their sum at every step.
THEOREM CountIsSum == Spec => []NestingIsTotal
<1>1. IInv => NestingIsTotal
  BY DEF IInv
<1> QED
  BY <1>1, Inductive, PTL

\* The handler of the MAC interrupt is interrupted only once its own task-level
\* post has yielded.
THEOREM HandlerAlone == Spec => []TrapNotReentered
<1>1. IInv => TrapNotReentered
  BY DEF IInv, HandlerInv, TrapNotReentered
<1> QED
  BY <1>1, Inductive, PTL

\* No interrupt comes before the first task runs.
THEOREM BootMasked == Spec => []MaskedUntilStart
<1>1. IInv => MaskedUntilStart
  BY DEF IInv, BootInv, MaskedUntilStart
<1> QED
  BY <1>1, Inductive, PTL

\* With no task in a section, running or suspended, interrupts are on, whatever
\* sequence of sections, switches and handlers has gone before.
THEOREM NeverDeaf == Spec => []InterruptsComeBack
<1>1. IInv => InterruptsComeBack
  BY DEF IInv
<1> QED
  BY <1>1, Inductive, PTL
=============================================================================
