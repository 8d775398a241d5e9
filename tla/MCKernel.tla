----------------------------- MODULE MCKernel ------------------------------
(***************************************************************************)
(* Instance of Kernel for TLC: a task that receives and suspends itself,   *)
(* one below it that sends, receives, delays and resumes the other and     *)
(* shares its priority with the idle task, and a queue of one.  The tick   *)
(* counter wraps every fourth tick; 3 is portMAX_DELAY.                    *)
(***************************************************************************)
EXTENDS KernelProps

CONSTANTS hi, lo, idle

MCTasks == {hi, lo, idle}
MCPrio  == [t \in MCTasks |-> IF t = hi THEN 1 ELSE 0]
MCCalls == [t \in MCTasks |-> CASE t = hi -> {"recv", "stop"}
                                [] t = lo -> {"send", "recv", "delay", "resume"}
                                [] OTHER -> {}]
MCWaits == [t \in MCTasks |-> CASE t = hi -> {2, 3}
                                [] t = lo -> {0, 3}
                                [] OTHER -> {}]
=============================================================================
