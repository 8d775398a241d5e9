------------------------------ MODULE MCUartTx ------------------------------
(***************************************************************************)
(* Instances of UartTx for TLC.  A FIFO of two bytes and strings of up to  *)
(* five have every relation the code meets with sixteen and a hundred:     *)
(* shorter than the FIFO, exactly its size, and several times around.      *)
(***************************************************************************)
EXTENDS UartTx
=============================================================================
