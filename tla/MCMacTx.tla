------------------------------- MODULE MCMacTx -------------------------------
(***************************************************************************)
(* The instance of MacTx for TLC.  Three senders contend for the buffer,   *)
(* so that one waits while another is overtaken; packets are chains of one *)
(* or two pbufs, so a frame can be overtaken in the middle of its copy.    *)
(***************************************************************************)
EXTENDS MacTxProps
=============================================================================
