---------------------------- MODULE RxInputProps ----------------------------
(***************************************************************************)
(* What the way from a frame to the stack keeps.                           *)
(***************************************************************************)
EXTENDS RxInput

\* The places a pbuf can be in: with the interrupt's callers or the threads, on
\* the lists of a connection or a datagram, in a message.
Places ==
  [k : {"pool", "hand", "kept", "leaked"}] \cup [k : {"ooseq", "refused"}, c : Pcbs] \cup [k : {"reass"}, d : Datagrams]
    \cup [k : {"mbox"}, i : DOMAIN mbox]

At(l) == CASE l.k = "pool"  -> pool
           [] l.k = "hand"  -> hand
           [] l.k = "kept"  -> kept
           [] l.k = "leaked" -> leaked
           [] l.k = "ooseq" -> ooseq[l.c]
           [] l.k = "refused" -> refused[l.c]
           [] l.k = "reass" -> reass[l.d]
           [] l.k = "mbox"  -> mbox[l.i].p

\* No pbuf is in two places: none is freed twice, or freed by one and used by
\* the other of the interrupt, tcpip_thread and the web thread.
OneOwner == \A l, m \in Places : l # m => At(l) \cap At(m) = {}

\* No pbuf is lost but those that tcp_input() forgets, in leaked.
NoneLost == \A b \in Pbufs : \E l \in Places : b \in At(l)

Held(t) == Cardinality({i \in DOMAIN mbox : mbox[i].type = t})
             + IF at # "fetch" /\ type = t THEN 1 ELSE 0

\* Neither is a struct tcpip_msg; and the web thread's one request is in the
\* mailbox or being handled until it is answered or left open.
MessagesAccounted ==
  /\ inpkt + Held("INPKT") = NumInpkt
  /\ msgapi + Held("CALLBACK") = NumMsgApi
  /\ Held("API") = IF asked = "queued" THEN 1 ELSE 0

\* Whatever fails on the way from the interrupt to the threads, each pbuf and
\* each message has one place, but for the pbufs that tcp_input() forgets when an
\* acknowledgement ends the connection (tcp_in.c:411, 429).
Conserved == OneOwner /\ NoneLost /\ MessagesAccounted

\* pbuf_free_ooseq_pending is set while a call is queued and at no other time:
\* an interrupt neither queues a second nor thinks that there is one when there
\* is none, whichever step of the callback it interrupts.
PendingIsQueued ==
  /\ pending <=> \/ \E i \in DOMAIN mbox : mbox[i].type = "CALLBACK"
                 \/ at = "handle" /\ type = "CALLBACK"
  /\ \A i, j \in DOMAIN mbox :
       mbox[i].type = "CALLBACK" /\ mbox[j].type = "CALLBACK" => i = j

\* With a message more than the mailbox holds and two for the callbacks, a frame
\* or a callback is refused because the mailbox is full and for no other reason:
\* whatever was refused before and wherever it failed has given its message back.
OnlyTheMailboxRefuses ==
  /\ NumInpkt > MboxSize => Full \/ inpkt > 0
  /\ NumMsgApi > 1 => pending \/ msgapi > 0

\* An empty pool fills again: what TCP has out of order is thrown away for the
\* next frame (pbuf.c: "It's better to give priority to new packets if we're
\* running out"), what waits to be reassembled after a time, which may be all
\* there is, as IP_REASS_MAX_PBUFS is more; but nothing that the application
\* holds or has refused, and nothing that has leaked.
Reclaimed ==
  pool = {} ~> \/ pool # {}
               \/ leaked \cup kept \cup UNION {refused[c] : c \in Pcbs} = Pbufs
=============================================================================
