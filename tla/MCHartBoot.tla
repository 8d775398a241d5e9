----------------------------- MODULE MCHartBoot -----------------------------
(***************************************************************************)
(* Instances of HartBoot for TLC: the harts of the default build (four     *)
(* besides the first) and of the project's own (one), with cold RAM or     *)
(* with the marks an earlier boot may have left.                           *)
(***************************************************************************)
EXTENDS HartBoot
=============================================================================
