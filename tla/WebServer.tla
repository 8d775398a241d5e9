----------------------------- MODULE WebServer -----------------------------
(***************************************************************************)
(* The web server of the demo on lwIP's sequential API: one thread that    *)
(* accepts a connection, receives, writes an answer, closes and deletes    *)
(* (httpserver-netconn.c, api_lib.c), tcpip_thread, which runs its         *)
(* requests (api_msg.c), and the connections under it (tcp.c, tcp_in.c).   *)
(*                                                                         *)
(* One action is one message or timer handled by tcpip_thread, or a step   *)
(* of the web thread between two blocking calls.  A record                 *)
(* [p |-> its tcp_pcb, n |-> its netconn, b |-> pbufs received, not freed] *)
(* stands for a connection, and an operator on it returns what it becomes, *)
(* or the set of what it may become where the pools of lwIP can run out:   *)
(* the heap of the kernel is taken not to.  Data are counted in segments.  *)
(***************************************************************************)
EXTENDS Integers, Sequences, FiniteSets

CONSTANTS
  Conns,       \* connections the clients may open, and open again
  Silent,      \* those of them that open connections and reset them, no more
  PoolSize,    \* PBUF_POOL_SIZE: a frame needs a pbuf to be looked at
  NumPcb,      \* MEMP_NUM_TCP_PCB
  NumNetconn,  \* MEMP_NUM_NETCONN, less the listener's
  AcceptSize,  \* length of acceptmbox: archMESG_QUEUE_LENGTH
  RecvSize,    \* length of recvmbox: the same
  SndBuf,      \* TCP_SND_BUF, in segments
  BodyLen,     \* the longest body, in segments; the header is one
  MaxSegs,     \* bound: segments a client sends
  PollsLeft    \* polls a close may wait for memory: 41

ASSUME SizeAssumption ==
  /\ IsFiniteSet(Conns) /\ Silent \subseteq Conns
  /\ {PoolSize, NumPcb, NumNetconn, AcceptSize, RecvSize, SndBuf, PollsLeft} \subseteq Nat \ {0}
  /\ BodyLen \in Nat /\ MaxSegs \in Nat

\* sys_arch.h:48 and lwipopts.h:336: 6 and 20, one of them the listener's.
ASSUME NetconnAssumption == AcceptSize < NumNetconn

ASSUME NameAssumption == Conns \cap {"nobody", "aborted"} = {}

VARIABLES
  pcb,         \* struct tcp_pcb of each connection
  netconn,     \* struct netconn of each connection
  pbufs,       \* pbufs with its data that have not been freed
  leaked,      \* pbufs dropped without being freed
  acceptmbox,  \* the listening netconn's mailbox
  at,          \* where the web thread is
  serving,     \* newconn
  buf,         \* what it has received
  part,        \* which part of the answer it is writing
  posted,      \* its request is in tcpip_thread's mailbox
  sent, fin    \* what each client has sent

web  == <<at, serving, buf, part, posted>>
vars == <<pcb, netconn, pbufs, leaked, acceptmbox, web, sent, fin>>

NoPcb == [state |-> "free", owned |-> FALSE, rxClosed |-> FALSE, closePend |-> FALSE,
          refused |-> 0, refusedFin |-> FALSE, unread |-> 0, inflight |-> 0]

NoNetconn == [used |-> FALSE, pcb |-> FALSE, fatal |-> FALSE, state |-> "none",
              valid |-> FALSE, recvmbox |-> <<>>, msg |-> FALSE, left |-> 0,
              shut |-> "none", polls |-> 0, done |-> 0]

\* tcp_active_pcbs
Active == {"syn", "est", "closewait", "finwait1", "finwait2", "closing", "lastack"}

\* A request the web thread waits for.
Waiting == at \in {"recved", "shut", "write", "close", "delete"}

TypeOK ==
  /\ pcb \in [Conns -> [state : Active \cup {"free", "timewait"}, owned : BOOLEAN,
                        rxClosed : BOOLEAN, closePend : BOOLEAN, refused : 0 .. 1,
                        refusedFin : BOOLEAN, unread : 0 .. MaxSegs + 1,
                        inflight : 0 .. SndBuf]]
  /\ \A c \in Conns :
       /\ netconn[c].recvmbox \in Seq({"data", "eof"})
       /\ Len(netconn[c].recvmbox) <= RecvSize
       /\ [netconn[c] EXCEPT !.recvmbox = <<>>] \in
            [used : BOOLEAN, pcb : BOOLEAN, fatal : BOOLEAN,
             state : {"none", "write", "close"}, valid : BOOLEAN, recvmbox : {<<>>},
             msg : BOOLEAN, left : 0 .. BodyLen + 1, shut : {"none", "rd", "rdwr"},
             polls : 0 .. PollsLeft, done : 0 .. 1]
  /\ pbufs \in [Conns -> 0 .. MaxSegs] /\ leaked \in 0 .. PoolSize
  /\ acceptmbox \in Seq(Conns \cup {"aborted"}) /\ Len(acceptmbox) <= AcceptSize
  /\ at \in {"accept", "check", "fetch", "recved", "shut", "write", "close",
             "delete", "ended"}
  /\ serving \in Conns \cup {"nobody"} /\ buf \in {"none", "data", "eof"}
  /\ part \in {"none", "header", "body"} /\ posted \in BOOLEAN
  /\ sent \in [Conns -> 0 .. MaxSegs] /\ fin \in [Conns -> BOOLEAN]

-----------------------------------------------------------------------------
(* Connections.                                                            *)

\* How many of the messages of a recvmbox are data.
DataIn(s) == Cardinality({i \in 1 .. Len(s) : s[i] = "data"})

Conn(c) == [p |-> pcb[c], n |-> netconn[c], b |-> pbufs[c], lost |-> 0]

\* c becomes one of the records of S.
Becomes(c, S) ==
  \E x \in S : /\ pcb' = [pcb EXCEPT ![c] = x.p]
               /\ netconn' = [netconn EXCEPT ![c] = x.n]
               /\ pbufs' = [pbufs EXCEPT ![c] = x.b]
               /\ leaked' = leaked + x.lost

\* sys_sem_signal(&conn->op_completed): a binary semaphore.
Signalled(n) == [n EXCEPT !.done = 1]

\* The request in hand ends: the netconn forgets it and wakes the web thread.
Complete(n) == Signalled([n EXCEPT !.msg = FALSE, !.state = "none", !.left = 0,
                                   !.shut = "none", !.polls = 0])

\* MUTANT of Room: one message too many.
RoomForOneMore(n) == Len(n.recvmbox) <= RecvSize

Room(n) == Len(n.recvmbox) < RecvSize

\* MUTANT of Err: the netconn keeps its request.
ErrStillAsked(n) ==
  LET m == [n EXCEPT !.pcb = FALSE,
                     !.fatal = @ \/ n.state # "close",
                     !.recvmbox = IF n.valid /\ Room(n) THEN Append(@, "eof") ELSE @]
  IN IF n.state = "none" THEN m ELSE Signalled(m)

\* MUTANT of Err: last_err is thought to be enough, no NULL is posted.
ErrMute(n) ==
  LET m == [n EXCEPT !.pcb = FALSE, !.fatal = @ \/ n.state # "close"]
  IN IF n.state = "none" THEN m ELSE Complete(m)

\* MUTANT of Err: only a close is woken.
ErrWakesClose(n) ==
  LET m == [n EXCEPT !.pcb = FALSE,
                     !.fatal = @ \/ n.state # "close",
                     !.recvmbox = IF n.valid /\ Room(n) THEN Append(@, "eof") ELSE @]
  IN IF n.state # "close" THEN m ELSE Complete(m)

\* err_tcp(): the pcb is gone.
Err(n) ==
  LET m == [n EXCEPT !.pcb = FALSE,
                     !.fatal = @ \/ n.state # "close",
                     !.recvmbox = IF n.valid /\ Room(n) THEN Append(@, "eof") ELSE @]
  IN IF n.state = "none" THEN m ELSE Complete(m)

\* The pcb is removed and its error callback called, which a pcb in TIME_WAIT
\* has no more: tcp_abandon(), TF_RESET in tcp_input(), pcb_remove in
\* tcp_slowtmr().
Removed(x) ==
  [x EXCEPT !.p = NoPcb, !.b = @ - x.p.refused,
            !.n = IF x.p.owned /\ x.p.state # "timewait" THEN Err(@) ELSE @]

\* tcp_close_shutdown_fin(): the FIN is queued, or there is no memory for it
\* and tcp_fasttmr() is to try again.
SendFin(x) ==
  LET next == IF x.p.state = "closewait" THEN "lastack" ELSE "finwait1"
  IN IF x.p.state \in {"syn", "est", "closewait"}
     THEN {[ok |-> TRUE,  x |-> [x EXCEPT !.p.state = next]],
           [ok |-> FALSE, x |-> [x EXCEPT !.p.closePend = TRUE]]}
     ELSE {[ok |-> TRUE, x |-> x]}

\* tcp_pcb_purge() and into tcp_tw_pcbs.
TimeWait(p) == [NoPcb EXCEPT !.state = "timewait", !.owned = p.owned, !.rxClosed = p.rxClosed]

\* tcp_close(): data the application has not read turn the FIN into a RST.
Close(x) ==
  LET y == [x EXCEPT !.p.rxClosed = TRUE] IN
  IF x.p.state \in {"est", "closewait"} /\ (x.p.refused > 0 \/ x.p.unread > 0)
  THEN {[ok |-> TRUE,
         x |-> [y EXCEPT !.p = IF @.state = "est" THEN TimeWait(@) ELSE NoPcb,
                         !.b = @ - x.p.refused]]}
  ELSE SendFin(y)

\* tcp_shutdown() of the receive side.
ShutRx(x) == [x EXCEPT !.p.rxClosed = TRUE, !.p.refused = 0, !.b = @ - x.p.refused]

\* MUTANT of CloseInternal: the pcb keeps its callbacks once it is closed.
CloseStillOwned(x) ==
  IF x.n.shut = "rd" THEN {[ShutRx(x) EXCEPT !.n = Complete(@)]}
  ELSE {IF r.ok THEN [r.x EXCEPT !.n = [Complete(@) EXCEPT !.pcb = FALSE]]
        ELSE IF x.n.polls = 0 THEN [Removed(r.x) EXCEPT !.n = [Complete(x.n) EXCEPT !.pcb = FALSE]]
        ELSE r.x : r \in Close(x)}

\* lwip_netconn_do_close_internal(): half a close; a close, after which the
\* pcb knows the netconn no more; no memory for it, and after the last poll
\* tcp_abort(), or the callbacks are set again and one of them tries again.
CloseInternal(x) ==
  IF x.n.shut = "rd" /\ x.p.state \notin {"finwait1", "finwait2", "closing"}
  THEN {[ShutRx(x) EXCEPT !.n = Complete(@)]}
  ELSE LET free == [x EXCEPT !.p.owned = FALSE] IN
       {IF r.ok THEN [r.x EXCEPT !.n = [Complete(@) EXCEPT !.pcb = FALSE]]
        ELSE IF x.n.polls = 0
        THEN [Removed(r.x) EXCEPT !.n = [Complete(@) EXCEPT !.pcb = FALSE]]
        ELSE [r.x EXCEPT !.p.owned = TRUE] : r \in Close(free)}

\* lwip_netconn_do_writemore(): as much as fits is queued and the whole is
\* done or not; no memory; or no route or an error, which ends the request with
\* that queued or nothing.
WriteMore(x) ==
  LET room == SndBuf - x.p.inflight
      len  == IF room < x.n.left THEN room ELSE x.n.left
      y    == [x EXCEPT !.p.inflight = @ + len, !.n.left = @ - len]
  IN {IF y.n.left = 0 THEN [y EXCEPT !.n = Complete(@)] ELSE y,
      x,
      [y EXCEPT !.n = Complete(@)],
      [x EXCEPT !.n = Complete(@)]}

\* sent_tcp() and poll_tcp()
Sent(x) == CASE x.n.state = "write" -> WriteMore(x)
             [] x.n.state = "close" -> CloseInternal(x)
             [] OTHER -> {x}

Polled(x) ==
  IF x.n.state = "close"
  THEN CloseInternal([x EXCEPT !.n.polls = IF @ = 0 THEN 0 ELSE @ - 1])
  ELSE Sent(x)

\* recv_tcp(): what does not fit the mailbox is refused.
Recv(x, what) ==
  IF ~x.n.valid
  THEN [ok |-> TRUE, x |-> IF what = "eof" THEN x
                           ELSE [x EXCEPT !.p.unread = @ - 1, !.b = @ - 1]]
  ELSE IF Room(x.n) THEN [ok |-> TRUE, x |-> [x EXCEPT !.n.recvmbox = Append(@, what)]]
  ELSE [ok |-> FALSE, x |-> x]

\* MUTANT of TellFin: the FIN stays in the window.
TellFinUncounted(x) == IF x.p.owned /\ ~x.p.rxClosed THEN Recv(x, "eof").x ELSE x

\* A FIN leaves the window again and is told to the application, if it still
\* listens.
TellFin(x) ==
  LET y == [x EXCEPT !.p.unread = IF @ = 0 THEN 0 ELSE @ - 1]
  IN IF x.p.owned /\ ~x.p.rxClosed THEN Recv(y, "eof").x ELSE y

\* tcp_process_refused_data()
Retry(x) ==
  LET r == Recv([x EXCEPT !.p.refused = 0, !.p.refusedFin = FALSE], "data")
  IN IF x.p.refused = 0 \/ ~r.ok THEN x
     ELSE IF x.p.refusedFin THEN TellFin(r.x) ELSE r.x

\* tcp_process(), but for RST and SYN: the state after a FIN or an ACK of ours.
NextState(s, f, all) ==
  CASE s = "est" /\ f              -> "closewait"
    [] s = "finwait1" /\ f /\ all  -> "timewait"
    [] s = "finwait1" /\ f /\ ~all -> "closing"
    [] s = "finwait1" /\ ~f /\ all -> "finwait2"
    [] s = "finwait2" /\ f         -> "timewait"
    [] s = "closing" /\ all        -> "timewait"
    [] OTHER                       -> s

\* tcp_process(): what a segment leaves of a connection, its data and its FIN
\* not yet told; ack acknowledges nothing, the data or all.
Processed(x, d, f, ack) ==
  LET state == NextState(x.p.state, f, ack = "all")
      y     == [x EXCEPT !.p.state = state, !.p.unread = @ + d + IF f THEN 1 ELSE 0,
                         !.b = @ + d, !.p.inflight = IF ack = "none" THEN @ ELSE 0]
  IN IF state = "timewait" THEN [y EXCEPT !.p = TimeWait(@)] ELSE y

\* The end of LAST_ACK, or of a pcb whose callback has had it freed: then
\* nobody frees the data.
Freed(z, last, d) ==
  IF z.p.state = "free" THEN [z EXCEPT !.b = @ - d, !.lost = d]
  ELSE IF ~last THEN z
  ELSE IF z.p.rxClosed THEN [z EXCEPT !.p = NoPcb] ELSE Removed(z)

TellData(z, d) ==
  IF d = 0 THEN z
  ELSE IF z.p.rxClosed THEN Removed([z EXCEPT !.b = @ - d])
  ELSE LET r == Recv(z, "data")
       IN IF r.ok THEN r.x ELSE [z EXCEPT !.p.refused = 1]

TellFinToo(z, f) ==
  IF ~f THEN z ELSE IF z.p.refused > 0 THEN [z EXCEPT !.p.refusedFin = TRUE] ELSE TellFin(z)

\* tcp_input() of a segment with d of data, a FIN or not: the callbacks in
\* their order, as long as there is a pcb.
Input(x0, d, f, ack) ==
  LET x      == Retry(x0)
      y      == Processed(x, d, f, ack)
      last   == x.p.state = "lastack" /\ ack = "all"
      acked  == IF x.p.owned /\ ack # "none" /\ x.p.inflight > 0 THEN Sent(y) ELSE {y}
      Data(z) == IF z.p.state = "free" THEN z ELSE TellData(z, d)
      Fin(z)  == IF z.p.state = "free" THEN z ELSE TellFinToo(z, f)
  IN {Fin(Data(Freed(z, last, d))) : z \in acked}

-----------------------------------------------------------------------------
(* The clients and the timers, as tcpip_thread handles them.               *)

\* low_level_input() drops a frame it has no pbuf for.
InUse == {p \in Conns \X (1 .. MaxSegs) : p[2] <= pbufs[p[1]]}

Frame == Cardinality(InUse) + leaked < PoolSize

Allocated == {c \in Conns : pcb[c].state # "free"}

\* tcp_alloc(): the pcbs the first of which is killed for a new one.
Victims ==
  LET In(S) == {c \in Conns : pcb[c].state \in S} IN
  IF Cardinality(Allocated) < NumPcb THEN {}
  ELSE IF In({"timewait"}) # {} THEN In({"timewait"})
  ELSE IF In({"lastack"}) # {} THEN In({"lastack"})
  ELSE IF In({"closing"}) # {} THEN In({"closing"})
  ELSE In(Active)

NewPcb == [NoPcb EXCEPT !.state = "syn"]

\* tcp_listen_input(): a SYN, and perhaps the oldest connection is killed.
Syn(c) ==
  /\ Frame
  /\ pcb[c] = NoPcb /\ netconn[c] = NoNetconn
  /\ IF Victims = {}
     THEN pcb' = [pcb EXCEPT ![c] = NewPcb] /\ UNCHANGED <<netconn, pbufs>>
     ELSE \E v \in Victims :
            LET x == Removed(Conn(v)) IN
            /\ pcb' = [pcb EXCEPT ![c] = NewPcb, ![v] = x.p]
            /\ netconn' = [netconn EXCEPT ![v] = x.n]
            /\ pbufs' = [pbufs EXCEPT ![v] = x.b]
  /\ sent' = [sent EXCEPT ![c] = 0]
  /\ fin' = [fin EXCEPT ![c] = FALSE]
  /\ UNCHANGED <<leaked, acceptmbox, web>>

NewNetconn == [NoNetconn EXCEPT !.used = TRUE, !.pcb = TRUE, !.valid = TRUE]

\* The handshake ends: accept_function() makes a netconn and posts it, or the
\* connection is aborted.  The queues of a netconn are of the heap, which does
\* not refuse them: _sbrk() never fails, and vApplicationMallocFailedHook() stops
\* the system rather than let pvPortMalloc() return NULL.
Handshake(c) ==
  /\ Frame /\ pcb[c].state = "syn"
  /\ IF Cardinality({d \in Conns : netconn[d].used}) = NumNetconn
     THEN /\ Becomes(c, {Removed(Conn(c))})
          /\ acceptmbox' = IF Len(acceptmbox) < AcceptSize
                           THEN Append(acceptmbox, "aborted") ELSE acceptmbox
     ELSE IF Len(acceptmbox) = AcceptSize
     THEN Becomes(c, {Removed(Conn(c))}) /\ UNCHANGED acceptmbox
     ELSE /\ Becomes(c, {[Conn(c) EXCEPT !.p.state = "est", !.p.owned = TRUE, !.n = NewNetconn]})
          /\ acceptmbox' = Append(acceptmbox, c)
  /\ UNCHANGED <<web, sent, fin>>

\* A segment of a connection; one that is dropped is sent again.
Segment(c, d, f, ack) ==
  /\ Frame /\ pcb[c].state \in Active \ {"syn"}
  /\ c \notin Silent /\ sent[c] + d <= MaxSegs
  /\ d > 0 \/ f => ~fin[c] /\ Retry(Conn(c)).p.refused = 0
  /\ d > 0 \/ f \/ ack # "none"
  /\ Becomes(c, Input(Conn(c), d, f, ack))
  /\ sent' = [sent EXCEPT ![c] = @ + d]
  /\ fin' = [fin EXCEPT ![c] = @ \/ f]
  /\ UNCHANGED <<acceptmbox, web>>

\* A RST.
Reset(c) ==
  /\ Frame /\ pcb[c].state \in Active
  /\ Becomes(c, {Removed(Conn(c))})
  /\ UNCHANGED <<acceptmbox, web, sent, fin>>

\* tcp_fasttmr()
FastTimer(c) ==
  /\ pcb[c].closePend \/ pcb[c].refused > 0
  /\ LET x == [Conn(c) EXCEPT !.p.closePend = FALSE]
         S == IF pcb[c].closePend THEN {r.x : r \in SendFin(x)} ELSE {x}
     IN Becomes(c, {Retry(y) : y \in S})
  /\ UNCHANGED <<acceptmbox, web, sent, fin>>

\* tcp_slowtmr(): the poll callback ...
Poll(c) ==
  /\ pcb[c].state \in Active /\ pcb[c].owned
  /\ Becomes(c, Polled(Conn(c)))
  /\ UNCHANGED <<acceptmbox, web, sent, fin>>

\* ... and what waited too long: for an ACK of data or of a FIN, or in TIME_WAIT.
SlowTimer(c) ==
  /\ \/ pcb[c].state \in {"syn", "finwait1", "closing", "lastack", "timewait"}
     \/ pcb[c].state = "finwait2" /\ pcb[c].rxClosed
     \/ pcb[c].inflight > 0
  /\ Becomes(c, {Removed(Conn(c))})
  /\ UNCHANGED <<acceptmbox, web, sent, fin>>

-----------------------------------------------------------------------------
(* The web thread, and the requests it has tcpip_thread carry out.         *)

\* tcpip_send_msg_wait_sem(): the request is posted ...
Ask(op) == at' = op /\ posted' = TRUE

\* ... handled ...
Handle(op, S) ==
  /\ at = op /\ posted
  /\ posted' = FALSE
  /\ Becomes(serving, S)
  /\ UNCHANGED <<acceptmbox, at, serving, buf, part, sent, fin>>

\* ... and its end waited for.
Answered(op) ==
  /\ at = op /\ serving \in Conns /\ netconn[serving].done = 1

Acked(x) == {[x EXCEPT !.n = Signalled(@)]}

Taken == netconn' = [netconn EXCEPT ![serving].done = 0]

\* netconn_accept(); out of netconns ends the thread.
Accept ==
  /\ at = "accept" /\ acceptmbox # <<>>
  /\ acceptmbox' = Tail(acceptmbox)
  /\ IF Head(acceptmbox) = "aborted"
     THEN at' = "ended" /\ UNCHANGED serving
     ELSE at' = "check" /\ serving' = Head(acceptmbox)
  /\ UNCHANGED <<pcb, netconn, pbufs, leaked, buf, part, posted, sent, fin>>

\* netconn_recv(): last_err is looked at, ...
Check ==
  /\ at = "check"
  /\ IF netconn[serving].fatal THEN Ask("close")
     ELSE at' = "fetch" /\ UNCHANGED posted
  /\ UNCHANGED <<pcb, netconn, pbufs, leaked, acceptmbox, serving, buf, part, sent, fin>>

\* ... then the mailbox waited for.
Fetch ==
  /\ at = "fetch" /\ netconn[serving].recvmbox # <<>>
  /\ buf' = Head(netconn[serving].recvmbox)
  /\ netconn' = [netconn EXCEPT ![serving].recvmbox = Tail(@)]
  /\ Ask("recved")
  /\ UNCHANGED <<pcb, pbufs, leaked, acceptmbox, serving, part, sent, fin>>

\* tcp_recved() of one segment, were the pcb still there.
Recved(x, k) == IF x.n.pcb THEN [x EXCEPT !.p.unread = @ - k] ELSE x

\* lwip_netconn_do_recv()
DoRecv ==
  Handle("recved", Acked(Recved(Conn(serving), IF buf = "data" THEN 1 ELSE 0)))

\* The end of netconn_recv(): a request, a connection lost, or a FIN.
Received ==
  /\ Answered("recved")
  /\ Taken
  /\ IF buf = "data" THEN Ask("write") /\ part' = "header" /\ UNCHANGED buf
     ELSE /\ Ask(IF netconn[serving].pcb THEN "shut" ELSE "close")
          /\ buf' = "none" /\ UNCHANGED part
  /\ UNCHANGED <<pcb, pbufs, leaked, acceptmbox, serving, sent, fin>>

\* MUTANT of Drain: the mailbox is freed, what is in it is not.
DrainMailbox(x) ==
  LET k == DataIn(x.n.recvmbox)
  IN [Recved(x, k) EXCEPT !.n.recvmbox = <<>>, !.n.valid = FALSE]

\* netconn_drain()
Drain(x) ==
  LET k == DataIn(x.n.recvmbox)
  IN [Recved(x, k) EXCEPT !.b = @ - k, !.n.recvmbox = <<>>, !.n.valid = FALSE]

\* The netconn takes a request to close on.
Closing(x, how) == [x EXCEPT !.n.state = "close", !.n.msg = TRUE,
                             !.n.shut = how, !.n.polls = PollsLeft]

\* lwip_netconn_do_close()
DoClose(op, how) ==
  LET x == Conn(serving) IN
  Handle(op, IF ~x.n.pcb \/ x.n.state = "write" THEN Acked(x)
             ELSE CloseInternal(Closing(Drain(x), how)))

DoShut == DoClose("shut", "rd")
DoCloseAll == DoClose("close", "rdwr")

Shut ==
  /\ Answered("shut")
  /\ Taken
  /\ Ask("close")
  /\ UNCHANGED <<pcb, pbufs, leaked, acceptmbox, serving, buf, part, sent, fin>>

\* The netconn takes a request to write on.
Writing(x, len) == [x EXCEPT !.n.state = "write", !.n.msg = TRUE, !.n.left = len]

\* lwip_netconn_do_write(); http_server_send_response() does not look at the result.
DoWrite ==
  \E len \in IF part = "header" THEN {1} ELSE 1 .. BodyLen :
    LET x == Conn(serving) IN
    Handle("write",
      IF x.n.fatal \/ x.n.state # "none" \/ ~x.n.pcb THEN Acked(x)
      ELSE WriteMore(Writing(x, len)))

Written ==
  /\ Answered("write")
  /\ Taken
  /\ \/ part = "header" /\ BodyLen > 0 /\ part' = "body" /\ Ask("write")
     \/ part' = "none" /\ Ask("close")
  /\ UNCHANGED <<pcb, pbufs, leaked, acceptmbox, serving, buf, sent, fin>>

\* netbuf_delete() once the connection is closed.
Closed ==
  /\ Answered("close")
  /\ Taken
  /\ pbufs' = [pbufs EXCEPT ![serving] = IF buf = "data" THEN @ - 1 ELSE @]
  /\ buf' = "none"
  /\ Ask("delete")
  /\ UNCHANGED <<pcb, leaked, acceptmbox, serving, part, sent, fin>>

\* lwip_netconn_do_delconn()
DoDelete ==
  LET x == Drain(Conn(serving)) IN
  Handle("delete",
    IF netconn[serving].state # "none" THEN Acked(Conn(serving))
    ELSE IF ~x.n.pcb THEN Acked(x)
    ELSE CloseInternal(Closing(x, "rdwr")))

\* MUTANT of Deleted: the netconn is not freed.
DeletedKept ==
  /\ Answered("delete")
  /\ Taken
  /\ at' = "accept" /\ serving' = "nobody"
  /\ UNCHANGED <<pcb, pbufs, leaked, acceptmbox, buf, part, posted, sent, fin>>

\* netconn_free(), unless netconn_delete() was refused.
Deleted ==
  /\ Answered("delete")
  /\ IF netconn[serving].state = "none"
     THEN netconn' = [netconn EXCEPT ![serving] = NoNetconn] ELSE Taken
  /\ at' = "accept" /\ serving' = "nobody"
  /\ UNCHANGED <<pcb, pbufs, leaked, acceptmbox, buf, part, posted, sent, fin>>

Init ==
  /\ pcb = [c \in Conns |-> NoPcb]
  /\ netconn = [c \in Conns |-> NoNetconn]
  /\ pbufs = [c \in Conns |-> 0] /\ leaked = 0
  /\ acceptmbox = <<>>
  /\ at = "accept" /\ serving = "nobody" /\ buf = "none" /\ part = "none"
  /\ posted = FALSE
  /\ sent = [c \in Conns |-> 0] /\ fin = [c \in Conns |-> FALSE]

Client(c) ==
  \/ Syn(c) \/ Handshake(c) \/ Reset(c)
  \/ \E d \in 0 .. 1, f \in BOOLEAN, ack \in {"none", "data", "all"} : Segment(c, d, f, ack)

Timer(c) == FastTimer(c) \/ Poll(c) \/ SlowTimer(c)

Thread == \/ Accept \/ Check \/ Fetch \/ Received \/ Shut \/ Written \/ Closed \/ Deleted

Requests == DoRecv \/ DoShut \/ DoCloseAll \/ DoWrite \/ DoDelete

Next == Thread \/ Requests \/ \E c \in Conns : Client(c) \/ Timer(c)

Spec == Init /\ [][Next]_vars

\* A client that has said nothing yet says something: a request, a FIN or a RST.
Speaks(c) ==
  /\ pcb[c].state = "est" /\ sent[c] = 0
  /\ Segment(c, 1, FALSE, "none") \/ Segment(c, 0, TRUE, "none") \/ Reset(c)

\* tcpip_thread and the web thread run whenever they have something to do, its
\* timers come round, a poll that could find memory does in the end, and a
\* client speaks.  Nothing is assumed of what comes after its first segment.
FairSpec ==
  /\ Spec
  /\ WF_vars(Thread) /\ WF_vars(Requests)
  /\ \A c \in Conns : WF_vars(FastTimer(c)) /\ WF_vars(Poll(c)) /\ WF_vars(SlowTimer(c))
                      /\ WF_vars(Speaks(c))
=============================================================================
