----------------------------- MODULE MCRxInput -----------------------------
(***************************************************************************)
(* Instance of RxInput for TLC: three pbufs and frames of one or two, so   *)
(* that the pool runs out in the middle of a frame, and a mailbox of two.  *)
(***************************************************************************)
EXTENDS RxInputProps
=============================================================================
