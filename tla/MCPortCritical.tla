--------------------------- MODULE MCPortCritical ---------------------------
(***************************************************************************)
(* Instances of PortCritical for TLC: three tasks, so that two can be      *)
(* suspended inside critical sections while a third runs, and sections     *)
(* nested two deep, as the handler's are in the network stack's.           *)
(***************************************************************************)
EXTENDS PortCritical
=============================================================================
