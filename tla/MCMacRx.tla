------------------------------- MODULE MCMacRx -------------------------------
(***************************************************************************)
(* Instances of MacRx for TLC, with a ring of three descriptors: head,     *)
(* tail and one between them, so that it can be empty, part full and full, *)
(* and indices wrap.  The .cfg files choose the traffic and the errors.    *)
(***************************************************************************)
EXTENDS MacRxProps
=============================================================================
