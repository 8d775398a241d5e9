--------------------------- MODULE WebServerProps ---------------------------
(***************************************************************************)
(* What the web server, its requests and the connections under them keep,  *)
(* whatever the clients do and whichever of the pools of lwIP runs out.    *)
(***************************************************************************)
EXTENDS WebServer

\* The netconn waits to be closed and no timer or ACK will call it back.
CloseLost(c) == netconn[c].state = "close" /\ pcb[c].state \notin Active

Bit(b) == IF b THEN 1 ELSE 0

Queued(c) == \E i \in 1 .. Len(acceptmbox) : acceptmbox[i] = c

\* A request the web thread waits for is in one place: in the mailbox, with the
\* netconn, or answered.  Nothing is left of it once it is answered: a second
\* sys_sem_signal() would answer the next one (current_msg in api_msg.c).
AnsweredOnce ==
  /\ Waiting => Bit(posted) + Bit(netconn[serving].msg) + netconn[serving].done = 1
  /\ ~Waiting => ~posted
  /\ \A c \in Conns : ~(Waiting /\ c = serving) => ~netconn[c].msg /\ netconn[c].done = 0

\* A pcb that knows its netconn is known to it, and a netconn that has a pcb has
\* one that is alive and knows it, unless its close is lost; and a netconn is in
\* use as long as the listener or the web thread has it: no callback gets a
\* netconn that was freed, no request a pcb that was, and none is lost.
PointersAgree ==
  \A c \in Conns :
    /\ netconn[c].used <=> Queued(c) \/ serving = c
    /\ pcb[c].owned => netconn[c].used /\ netconn[c].pcb
    /\ netconn[c].pcb /\ ~CloseLost(c) => pcb[c].owned /\ pcb[c].state \in Active

\* Every pbuf received and not freed is refused data, in a mailbox or in the
\* netbuf of the web thread: those that tcp_input() drops are in leaked.
PbufsAccounted ==
  \A c \in Conns :
    pbufs[c] = pcb[c].refused + DataIn(netconn[c].recvmbox)
                 + Bit(serving = c /\ buf = "data")

\* The window the client sees closes only for what is still to be received, or
\* is just being told: refused, in the mailbox, or between netconn_recv() and
\* the tcp_recved() it asks for.
WindowKept ==
  \A c \in Conns : pcb[c].owned /\ ~pcb[c].rxClosed =>
    pcb[c].unread = pcb[c].refused + Bit(pcb[c].refusedFin) + DataIn(netconn[c].recvmbox)
                      + Bit(serving = c /\ buf = "data" /\ at = "recved" /\ posted)

\* The web thread waits at an empty mailbox for a client that has said nothing,
\* and for no other: the loss of a connection between its look at last_err and
\* its wait (netconn_recv_data()) does not leave it there.
NeverDeaf ==
  at = "fetch" /\ netconn[serving].recvmbox = <<>> =>
    pcb[serving].state = "est" /\ sent[serving] = 0

\* http_server_netconn_thread() "never returns!": while the heap lasts there is
\* no moment at which netconn_alloc() fails, with all netconns in use, and the
\* mailbox has room for netconn_aborted.  (Without heap the system stops: see
\* Handshake.)
ServerRuns == at # "ended"

\* No pbuf is free, and the web thread waits for a client that could give one
\* back only by sending: the others hold what they have sent until their turn.
Starved == at = "fetch" /\ netconn[serving].recvmbox = <<>> /\ ~Frame

\* Every connection that is accepted has its turn and its netconn freed, whatever
\* its client does after its first words, if memory comes back; unless some close
\* has been lost, or the pool of pbufs.
Turn ==
  \A c \in Conns \ Silent : Queued(c) ~> ~netconn[c].used \/ Starved \/ \E d \in Conns : CloseLost(d)

\* api_msg.c: "If closing didn't succeed, we get called again either from
\* poll_tcp or from sent_tcp".
CloseCalledBack == \A c \in Conns : ~CloseLost(c)
=============================================================================
