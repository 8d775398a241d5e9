------------------------------ MODULE RxInput ------------------------------
(***************************************************************************)
(* From a received frame to the TCP/IP stack: the receive callback of the  *)
(* MAC driver copies a frame into pbufs and posts it to tcpip_thread       *)
(* (m2sxxx_ethernetif.c, tcpip.c, pbuf.c, memp.c), which processes it; and *)
(* when the pool of pbufs is empty it has tcpip_thread throw away what TCP *)
(* holds out of order.                                                     *)
(*                                                                         *)
(* The interrupt is one action, and falls between any two steps of the     *)
(* threads, which is where sys_arch_protect() has ended.  tcpip_thread's   *)
(* mailbox is used as Mailbox promises.  What the stack does with a frame  *)
(* is a choice: it is freed, kept for the application, refused by it, put  *)
(* out of order, or waits for the other fragments of its datagram.  The    *)
(* segments of a connection are sets: any of them may overlap any other.   *)
(***************************************************************************)
EXTENDS Integers, Sequences, FiniteSets

CONSTANTS
  Pbufs,      \* MEMP_PBUF_POOL
  Pcbs,       \* tcp_active_pcbs
  Datagrams,  \* what the fragments belong to
  MboxSize,   \* archMESG_QUEUE_LENGTH
  NumInpkt,   \* MEMP_NUM_TCPIP_MSG_INPKT
  NumMsgApi,  \* MEMP_NUM_TCPIP_MSG_API
  MaxReass,   \* IP_REASS_MAX_PBUFS
  NumReass,   \* MEMP_NUM_REASSDATA
  MaxChain    \* pbufs the longest frame takes

ASSUME SizeAssumption ==
  /\ IsFiniteSet(Pbufs) /\ Pbufs # {}
  /\ {MboxSize, NumInpkt, NumMsgApi, MaxReass, NumReass, MaxChain} \subseteq Nat \ {0}

VARIABLES
  pool,     \* the pbufs on the pool's free list
  inpkt,    \* struct tcpip_msg left for packets ...
  msgapi,   \* ... and for callbacks
  mbox,     \* tcpip_thread's mailbox
  pending,  \* pbuf_free_ooseq_pending
  at,       \* where tcpip_thread is
  type,     \* msg->type of the message it handles
  hand,     \* the pbufs it handles
  ooseq,    \* pcb->ooseq
  refused,  \* pcb->refused_data
  leaked,   \* pbufs that nobody has and nobody has freed
  reass,    \* reassdatagrams
  kept,     \* pbufs in the recvmboxes and netbufs of the application
  asked     \* the request of the web thread: none, in the mailbox, or handled
            \* and still not answered

vars == <<pool, inpkt, msgapi, mbox, pending, at, type, hand, ooseq, refused, leaked, reass,
          kept, asked>>

tcp == <<ooseq, refused, leaked>>

Messages == [type : {"INPKT"}, p : SUBSET Pbufs] \cup [type : {"API", "CALLBACK"}, p : {{}}]

TypeOK ==
  /\ pool \in SUBSET Pbufs /\ hand \in SUBSET Pbufs /\ kept \in SUBSET Pbufs
  /\ leaked \in SUBSET Pbufs
  /\ ooseq \in [Pcbs -> SUBSET Pbufs] /\ refused \in [Pcbs -> SUBSET Pbufs]
  /\ reass \in [Datagrams -> SUBSET Pbufs]
  /\ inpkt \in 0 .. NumInpkt /\ msgapi \in 0 .. NumMsgApi
  /\ mbox \in Seq(Messages) /\ Len(mbox) <= MboxSize
  /\ pending \in BOOLEAN /\ asked \in {"no", "queued", "open"}
  /\ at \in {"fetch", "handle", "reclaim", "free", "done"}
  /\ type \in {"INPKT", "API", "CALLBACK", "TIMER"}

Full == Len(mbox) = MboxSize

-----------------------------------------------------------------------------
(* The receive interrupt.                                                  *)

\* MUTANT of PoolIsEmpty: the flag stays set when the callback is not queued.
PoolIsEmptyOnce ==
  /\ pending' = TRUE
  /\ IF pending \/ msgapi = 0 \/ Full
     THEN UNCHANGED <<msgapi, mbox>>
     ELSE /\ msgapi' = msgapi - 1
          /\ mbox' = Append(mbox, [type |-> "CALLBACK", p |-> {}])
  /\ UNCHANGED <<pool, inpkt>>

\* pbuf_pool_is_empty(): a callback is queued, unless one is.
PoolIsEmpty ==
  /\ IF pending \/ msgapi = 0 \/ Full
     THEN UNCHANGED <<pending, msgapi, mbox>>
     ELSE /\ pending' = TRUE
          /\ msgapi' = msgapi - 1
          /\ mbox' = Append(mbox, [type |-> "CALLBACK", p |-> {}])
  /\ UNCHANGED <<pool, inpkt>>

\* MUTANT of TcpipInpkt: the message is not freed when the mailbox is full.
TcpipInpktLeaks(p) ==
  IF inpkt = 0 THEN UNCHANGED <<pool, inpkt, mbox>>
  ELSE /\ inpkt' = inpkt - 1
       /\ IF Full THEN UNCHANGED <<pool, mbox>>
          ELSE pool' = pool \ p /\ mbox' = Append(mbox, [type |-> "INPKT", p |-> p])

\* tcpip_inpkt(), and ethernetif_input(), which frees what it refuses.
TcpipInpkt(p) ==
  IF inpkt = 0 \/ Full THEN UNCHANGED <<pool, inpkt, mbox>>
  ELSE /\ pool' = pool \ p
       /\ inpkt' = inpkt - 1
       /\ mbox' = Append(mbox, [type |-> "INPKT", p |-> p])

\* A frame that takes n pbufs: low_level_input() gets all of them or none.
Frame(n) ==
  /\ IF Cardinality(pool) < n THEN PoolIsEmpty
     ELSE \E p \in SUBSET pool :
            /\ Cardinality(p) = n
            /\ TcpipInpkt(p)
            /\ UNCHANGED <<pending, msgapi>>
  /\ UNCHANGED <<at, type, hand, tcp, reass, kept, asked>>

-----------------------------------------------------------------------------
(* tcpip_thread.                                                           *)

Fetch ==
  /\ at = "fetch" /\ mbox # <<>>
  /\ mbox' = Tail(mbox)
  /\ type' = Head(mbox).type /\ hand' = Head(mbox).p
  /\ at' = "handle"
  /\ UNCHANGED <<pool, inpkt, msgapi, pending, tcp, reass, kept, asked>>

\* pbuf_free() of a chain is left to be done.
FreeAll(p) == hand' = p /\ at' = IF p = {} THEN "done" ELSE "free"

\* The pbufs of some datagrams, and the others without them.
Of(D) == UNION {reass[d] : d \in D}
Without(D) == [d \in Datagrams |-> IF d \in D THEN {} ELSE reass[d]]

\* The other datagrams that wait.
Others(d) == {e \in Datagrams \ {d} : reass[e] # {}}

TooMany == Cardinality(Of(Datagrams) \cup hand) > MaxReass

NoStruct(d) == reass[d] = {} /\ Cardinality(Others(d)) >= NumReass

\* ip4_reass(), for a fragment of d: were there too many pbufs or datagrams, as
\* many others, D, are freed, one by one, as it takes pbufs itself
\* (ip_reass_remove_oldest_datagram()) ...
Evicts(d, D) ==
  IF ~TooMany /\ ~NoStruct(d) THEN D = {}
  ELSE /\ D \subseteq Others(d)
       /\ D = Others(d) \/ Cardinality(Of(D)) >= Cardinality(hand)
       /\ D # {} => \E e \in D : Cardinality(Of(D \ {e})) < Cardinality(hand)

\* ... which may not be enough.
Admitted(d, D) ==
  /\ Cardinality((Of(Datagrams) \ Of(D)) \cup hand) <= MaxReass
  /\ TooMany \/ ~NoStruct(d) \/ Cardinality(Of(D)) >= Cardinality(hand)

\* A fragment that does not complete its datagram: it waits, or is dropped when
\* there is no room or it overlaps another.
Fragment ==
  /\ at = "handle" /\ type = "INPKT"
  /\ \E d \in Datagrams, D \in SUBSET Datagrams :
       /\ d \notin D /\ Evicts(d, D)
       /\ \/ Admitted(d, D) /\ FreeAll(Of(D)) /\ reass' = [Without(D) EXCEPT ![d] = @ \cup hand]
          \/ /\ ~Admitted(d, D) \/ reass[d] # {}
             /\ FreeAll(Of(D) \cup hand) /\ reass' = Without(D)
  /\ UNCHANGED <<pool, inpkt, msgapi, mbox, pending, type, tcp, kept, asked>>

\* A frame that is whole, or completes a datagram: p is it, x what is freed for it.
Whole(p, x) ==
  \/ p = hand /\ x = {} /\ UNCHANGED reass
  \/ \E d \in Datagrams, D \in SUBSET Datagrams :
       /\ d \notin D /\ Evicts(d, D) /\ Admitted(d, D) /\ reass[d] # {}
       /\ p = hand \cup reass[d] /\ x = Of(D)
       /\ reass' = Without(D \cup {d})

\* The application takes or refuses up, after what it has refused before, old.
Offer(c, old, up) ==
  \E again \in {{}, up} : /\ refused' = [refused EXCEPT ![c] = again]
                          /\ kept' = kept \cup old \cup (up \ again)

\* MUTANT of Segment: what was out of order is freed and stays on pcb->ooseq.
SegmentTwice(c, p, x) ==
  \E o, up \in SUBSET (p \cup ooseq[c]), old \in {{}, refused[c]} :
    /\ o \cap up = {} /\ (up # {} => p \cap up # {} /\ p \cap o = {})
    /\ ooseq' = [ooseq EXCEPT ![c] = @ \cup o]
    /\ Offer(c, old, up)
    /\ FreeAll(x \cup ((p \cup ooseq[c] \cup refused[c]) \ (o \cup up \cup old)))
    /\ UNCHANGED leaked

\* tcp_input() of p on connection c, with x to be freed: first the application
\* is offered what it has refused; then p is the next it gets, with what p was
\* missing for, or is out of order, in part or not at all, and may take the
\* place of some that was; or it ends the connection, and nothing is left.
Segment(c, p, x) ==
  \E o, up \in SUBSET (p \cup ooseq[c]), old \in {{}, refused[c]} :
    /\ o \cap up = {} /\ (up # {} => p \cap up # {} /\ p \cap o = {})
    /\ ooseq' = [ooseq EXCEPT ![c] = o]
    /\ Offer(c, old, up)
    /\ FreeAll(x \cup ((p \cup ooseq[c] \cup refused[c]) \ (o \cup up \cup old)))
    /\ UNCHANGED leaked

\* The acknowledgement in p ends the connection, from the close that sent_tcp()
\* calls or in LAST_ACK: what p lets the application have, up, is forgotten
\* (recv_data = NULL at the label aborted).
EndsWith(c, p, x) ==
  \E up \in SUBSET (p \cup ooseq[c]), old \in {{}, refused[c]} :
    /\ p \cap up # {}
    /\ leaked' = leaked \cup up
    /\ ooseq' = [ooseq EXCEPT ![c] = {}] /\ refused' = [refused EXCEPT ![c] = {}]
    /\ kept' = kept \cup old
    /\ FreeAll(x \cup ((p \cup ooseq[c] \cup refused[c]) \ (up \cup old)))

\* A callback of TCP may signal op_completed for a request that was left open.
Answer == asked' \in IF asked = "open" THEN {"open", "no"} ELSE {asked}

\* ethernet_input() to tcp_input(): a segment of a connection, or nothing is
\* left of the frame, as when the application goes on refusing.
Input ==
  /\ at = "handle" /\ type = "INPKT"
  /\ \E p, x \in SUBSET Pbufs :
       /\ Whole(p, x)
       /\ \/ FreeAll(p \cup x) /\ UNCHANGED <<tcp, kept>>
          \/ \E c \in Pcbs : Segment(c, p, x) \/ EndsWith(c, p, x)
  /\ Answer
  /\ UNCHANGED <<pool, inpkt, msgapi, mbox, pending, type>>

\* ip_reass_tmr(), before a message is fetched: datagrams that waited too long.
ReassTimer ==
  /\ at = "fetch"
  /\ \E D \in SUBSET Datagrams : Of(D) # {} /\ FreeAll(Of(D)) /\ reass' = Without(D)
  /\ type' = "TIMER"
  /\ UNCHANGED <<pool, inpkt, msgapi, mbox, pending, tcp, kept, asked>>

\* tcp_tmr(): what is out of order is dropped after a time, what was refused is
\* offered again, or a connection is given up and purged; or only poll_tcp()
\* has something to do.
TcpTimer ==
  /\ at = "fetch"
  /\ \E c \in Pcbs : \E o \in {{}, ooseq[c]}, old, left \in {{}, refused[c]} :
       /\ old \cap left = {}
       /\ ooseq' = [ooseq EXCEPT ![c] = o] /\ refused' = [refused EXCEPT ![c] = left]
       /\ kept' = kept \cup old
       /\ FreeAll((ooseq[c] \cup refused[c]) \ (o \cup old \cup left))
  /\ type' = "TIMER"
  /\ Answer
  /\ UNCHANGED <<pool, inpkt, msgapi, mbox, pending, leaked, reass>>

\* A request of the web thread: a write, or one that empties a mailbox and
\* closes connection c, which may purge it.
Request ==
  /\ at = "handle" /\ type = "API"
  /\ \E p \in SUBSET kept, c \in Pcbs : \E o \in {{}, ooseq[c]}, left \in {{}, refused[c]} :
       /\ kept' = kept \ p
       /\ ooseq' = [ooseq EXCEPT ![c] = o] /\ refused' = [refused EXCEPT ![c] = left]
       /\ FreeAll(p \cup (ooseq[c] \ o) \cup (refused[c] \ left))
  /\ UNCHANGED <<pool, inpkt, msgapi, mbox, pending, type, leaked, reass, asked>>

\* MUTANT of Callback: the flag is not cleared.
CallbackPending ==
  /\ at = "handle" /\ type = "CALLBACK"
  /\ at' = "reclaim"
  /\ UNCHANGED <<pool, inpkt, msgapi, mbox, pending, type, hand, tcp, reass, kept, asked>>

\* pbuf_free_ooseq(): another call may be queued from here on ...
Callback ==
  /\ at = "handle" /\ type = "CALLBACK"
  /\ pending' = FALSE
  /\ at' = "reclaim"
  /\ UNCHANGED <<pool, inpkt, msgapi, mbox, type, hand, tcp, reass, kept, asked>>

\* ... and the segments of one pcb are freed.
Reclaim ==
  /\ at = "reclaim"
  /\ \/ \E c \in Pcbs : /\ ooseq[c] # {}
                        /\ FreeAll(ooseq[c])
                        /\ ooseq' = [ooseq EXCEPT ![c] = {}]
     \/ (\A c \in Pcbs : ooseq[c] = {}) /\ FreeAll({}) /\ UNCHANGED ooseq
  /\ UNCHANGED <<pool, inpkt, msgapi, mbox, pending, type, refused, leaked, reass, kept, asked>>

\* memp_free() of one pbuf of the chain.
FreePbuf ==
  /\ at = "free"
  /\ \E b \in hand : pool' = pool \cup {b} /\ FreeAll(hand \ {b})
  /\ UNCHANGED <<inpkt, msgapi, mbox, pending, type, tcp, reass, kept, asked>>

\* The message is freed.  A request that was handled is answered, unless it is
\* left open, as a write or a close that needs the other end is.
Done ==
  /\ at = "done"
  /\ at' = "fetch"
  /\ inpkt' = IF type = "INPKT" THEN inpkt + 1 ELSE inpkt
  /\ msgapi' = IF type = "CALLBACK" THEN msgapi + 1 ELSE msgapi
  /\ asked' \in IF type = "API" THEN {"no", "open"} ELSE {asked}
  /\ UNCHANGED <<pool, mbox, pending, type, hand, tcp, reass, kept>>

-----------------------------------------------------------------------------
(* The web thread.                                                         *)

\* sys_mbox_post()
Ask ==
  /\ asked = "no" /\ ~Full
  /\ asked' = "queued"
  /\ mbox' = Append(mbox, [type |-> "API", p |-> {}])
  /\ UNCHANGED <<pool, inpkt, msgapi, pending, at, type, hand, tcp, reass, kept>>

\* netbuf_delete() of one pbuf.
DeleteNetbuf(b) ==
  /\ asked = "no" /\ b \in kept
  /\ pool' = pool \cup {b} /\ kept' = kept \ {b}
  /\ UNCHANGED <<inpkt, msgapi, mbox, pending, at, type, hand, tcp, reass, asked>>

Init ==
  /\ pool = Pbufs /\ inpkt = NumInpkt /\ msgapi = NumMsgApi
  /\ mbox = <<>> /\ pending = FALSE
  /\ at = "fetch" /\ type = "API" /\ hand = {}
  /\ ooseq = [c \in Pcbs |-> {}] /\ refused = [c \in Pcbs |-> {}] /\ leaked = {}
  /\ reass = [d \in Datagrams |-> {}] /\ kept = {} /\ asked = "no"

Frames == \E n \in 1 .. MaxChain : Frame(n)

Thread == Fetch \/ Input \/ Fragment \/ Request \/ Callback \/ Reclaim \/ FreePbuf \/ Done

Next == Frames \/ Thread \/ ReassTimer \/ TcpTimer \/ Ask \/ \E b \in Pbufs : DeleteNetbuf(b)

Spec == Init /\ [][Next]_vars

\* tcpip_thread runs whenever it has something to do, looks at its timers before
\* it fetches and fetches between them (sys_timeouts_mbox_fetch()), and frames
\* keep coming.
FairSpec ==
  /\ Spec
  /\ WF_vars(Thread) /\ SF_vars(Fetch) /\ SF_vars(ReassTimer)
  /\ WF_vars(Frames)
=============================================================================
