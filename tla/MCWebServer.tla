---------------------------- MODULE MCWebServer ----------------------------
(***************************************************************************)
(* Instance of WebServer for TLC: two clients and a third that never sends *)
(* data, over two pcbs, so that tcp_alloc() kills connections; mailboxes   *)
(* of one message and two segments to send, so that data are refused; one  *)
(* netconn more than acceptmbox holds.                                     *)
(***************************************************************************)
EXTENDS WebServerProps
=============================================================================
