-------------------------- MODULE WebServerProofs --------------------------
(***************************************************************************)
(* Safety of the web server's connections, for any clients, pools,         *)
(* mailboxes, bodies and lengths of wait.                                  *)
(***************************************************************************)
EXTENDS WebServerProps, FiniteSetTheorems, SequenceTheorems, TLAPS

(***************************************************************************)
(* The inductive invariant speaks of one connection at a time: its record  *)
(* x, as tcpip_thread has it in hand, and what the web thread is about     *)
(* with it,                                                                *)
(*   a  where its netconn is: nowhere, with the listener, or served,       *)
(*   o  1 if the web thread has posted a request that is not handled yet,  *)
(*   u  1 if the web thread has a pbuf of it,                              *)
(* and what its client has sent,                                           *)
(*   s, f  how many segments and FINs,                                     *)
(*   d, g  how many of each are in the segment in hand and not told yet.   *)
(***************************************************************************)
Asking == {"recved", "shut", "write", "close", "delete"}
Early  == {"queued", "check", "fetch"}
Roles  == Early \cup Asking \cup {"free"}

MailType == {"data", "eof"}

Bits       == 0 .. 1
PcbStates  == Active \cup {"free", "timewait"}
Operations == {"none", "write", "close"}
Halves     == {"none", "rd", "rdwr"}
Mailboxes  == Seq(MailType)
Lengths    == 0 .. BodyLen + 1
PollCounts == 0 .. PollsLeft
Inflight   == 0 .. SndBuf

PcbType == [state : PcbStates, owned : BOOLEAN, rxClosed : BOOLEAN, closePend : BOOLEAN,
            refused : Bits, refusedFin : BOOLEAN, unread : Nat, inflight : Inflight]

NetconnType == [used : BOOLEAN, pcb : BOOLEAN, fatal : BOOLEAN, state : Operations,
                valid : BOOLEAN, recvmbox : Mailboxes, msg : BOOLEAN, left : Lengths,
                shut : Halves, polls : PollCounts, done : Bits]

ConnType == [p : PcbType, n : NetconnType, b : Nat, lost : Bits]

\* A request is where AnsweredOnce says; one that goes on has its pcb, and only
\* a close of both directions does so with the mailbox gone.
NetconnInv(n, a, o) ==
  /\ Len(n.recvmbox) <= RecvSize
  /\ a = "free" <=> n = NoNetconn
  /\ n.used <=> a # "free"
  /\ n.msg <=> n.state # "none"
  /\ n.msg => n.pcb
  /\ a \in Asking /\ o = 0 => (n.msg <=> n.done = 0)
  /\ a \notin Asking \/ o = 1 => ~n.msg /\ n.done = 0
  /\ n.state = "write" => a = "write"
  /\ n.state = "close" => a \in {"close", "delete"} /\ n.shut = "rdwr" /\ ~n.valid
  /\ a \in {"close", "delete"} /\ n.done = 1 => ~n.pcb
  /\ a = "delete" /\ o = 0 => ~n.valid
  /\ a \in Early \cup {"recved", "write"} => n.valid
  /\ a = "shut" /\ o = 1 => n.valid
  /\ ~n.valid => n.recvmbox = <<>>

\* A pcb that has sent its FIN, or is to, is being closed, and told no data.
PcbInv(p, n, f, d, g) ==
  /\ p.state = "free" => p = NoPcb
  /\ p.state = "syn" => p = NewPcb /\ n = NoNetconn
  /\ p.state \in {"est", "closewait"} => p.owned
  /\ p.state \notin {"free", "syn", "est", "closewait"} => p.rxClosed
  /\ p.owned => n.pcb /\ p.state \notin {"free", "syn"}
  /\ n.pcb /\ ~(n.state = "close" /\ p.state \notin Active) => p.owned /\ p.state \in Active
  /\ p.owned /\ p.state \notin {"est", "closewait"} => n.state = "close"
  /\ p.owned => (p.rxClosed <=> ~n.valid)
  /\ p.closePend /\ p.state \in {"est", "closewait"} => n.state = "close"
  /\ p.rxClosed => p.refused = 0
  /\ ~p.rxClosed /\ p.refusedFin => p.refused = 1 /\ f = 1 /\ g = 0
  /\ d > 0 => p.refused = 0
  /\ p.state \in {"closewait", "lastack"} => f = 1

\* The web thread has received data and its tcp_recved() is still to come.
Due(a, o, u) == IF a = "recved" /\ o = 1 /\ u = 1 THEN 1 ELSE 0

\* Every pbuf and every byte of the window is accounted for.
CountInv(x, a, o, u, s, f, d, g) ==
  /\ x.b = x.p.refused + DataIn(x.n.recvmbox) + u + d
  /\ x.b <= s
  /\ x.p.unread <= s + f
  /\ x.p.owned /\ ~x.p.rxClosed =>
       x.p.unread = x.p.refused + Bit(x.p.refusedFin) + DataIn(x.n.recvmbox)
                      + Due(a, o, u) + d + g

\* The web thread has something to find in the mailbox, or the client has still
\* to speak, or just has.
EarlyInv(x, a, s, f, d, g) ==
  a \in Early /\ x.n.recvmbox = <<>> =>
    /\ x.p.refused = 0
    /\ \/ d > 0 /\ x.p.owned
       \/ g > 0 /\ x.p.owned
       \/ x.p.state = "est" /\ s = 0 /\ f = 0

ConnInv(x, a, o, u, s, f, d, g) ==
  /\ x \in ConnType
  /\ NetconnInv(x.n, a, o)
  /\ PcbInv(x.p, x.n, f, d, g)
  /\ CountInv(x, a, o, u, s, f, d, g)
  /\ EarlyInv(x, a, s, f, d, g)

Role(c) == IF serving = c THEN at ELSE IF Queued(c) THEN "queued" ELSE "free"

\* The web thread has posted a request on c, has a pbuf of it, c has sent a FIN.
Asked(c) == IF serving = c /\ posted THEN 1 ELSE 0
Held(c)  == IF serving = c /\ buf = "data" THEN 1 ELSE 0
Said(c)  == IF fin[c] THEN 1 ELSE 0

Kept(c) == ConnInv(Conn(c), Role(c), Asked(c), Held(c), sent[c], Said(c), 0, 0)

\* What the web thread has and where it is.
ThreadInv ==
  /\ at \in {"accept", "check", "fetch"} \cup Asking
  /\ serving \in Conns \cup {"nobody"}
  /\ serving = "nobody" <=> at = "accept"
  /\ buf \in {"none", "data", "eof"}
  /\ buf = "data" => at \in {"recved", "write", "close"}
  /\ buf = "eof" => at = "recved"
  /\ part \in {"none", "header", "body"}
  /\ posted \in BOOLEAN
  /\ posted => at \in Asking

\* A netconn waits in acceptmbox once, and not while it is served.
AcceptInv ==
  /\ acceptmbox \in Seq(Conns) /\ Len(acceptmbox) <= AcceptSize
  /\ \A i, j \in 1 .. Len(acceptmbox) : acceptmbox[i] = acceptmbox[j] => i = j
  /\ \A i \in 1 .. Len(acceptmbox) : acceptmbox[i] # serving

\* A client sends nothing before the handshake is over.
Unheard == \A c \in Conns : pcb[c].state = "syn" => sent[c] = 0 /\ ~fin[c]

IInv ==
  /\ pcb \in [Conns -> PcbType] /\ netconn \in [Conns -> NetconnType]
  /\ pbufs \in [Conns -> Nat] /\ leaked \in 0 .. PoolSize
  /\ sent \in [Conns -> 0 .. MaxSegs] /\ fin \in [Conns -> BOOLEAN]
  /\ ThreadInv /\ AcceptInv /\ Unheard
  /\ \A c \in Conns : Kept(c)

-----------------------------------------------------------------------------
(* Data in a mailbox.                                                      *)

Places(s) == {i \in 1 .. Len(s) : s[i] = "data"}

\* What the constants are, in one fact.
LEMMA Sizes ==
  /\ PoolSize \in Nat /\ PoolSize > 0 /\ RecvSize \in Nat /\ RecvSize > 0
  /\ NumPcb \in Nat /\ NumPcb > 0 /\ NumNetconn \in Nat /\ AcceptSize \in Nat
  /\ AcceptSize < NumNetconn
  /\ SndBuf \in Nat /\ PollsLeft \in Nat /\ BodyLen \in Nat /\ MaxSegs \in Nat
  /\ IsFiniteSet(Conns) /\ "nobody" \notin Conns /\ "aborted" \notin Conns
BY SizeAssumption, NetconnAssumption, NameAssumption

\* Bit and Due count at most one.
LEMMA BitType == /\ \A b : Bit(b) \in 0 .. 1
                 /\ \A a, o, u : Due(a, o, u) \in 0 .. 1
BY DEF Bit, Due

\* DataIn counts the places of a mailbox that hold a pbuf.
LEMMA PlacesFinite ==
  ASSUME NEW s \in Seq(MailType)
  PROVE  IsFiniteSet(Places(s)) /\ DataIn(s) = Cardinality(Places(s)) /\ DataIn(s) \in Nat
<1>1. Len(s) \in Nat
  BY LenProperties
<1>2. IsFiniteSet(1 .. Len(s))
  BY <1>1, FS_Interval
<1>3. Places(s) \subseteq 1 .. Len(s)
  BY DEF Places
<1>4. IsFiniteSet(Places(s))
  BY <1>2, <1>3, FS_Subset
<1>5. DataIn(s) = Cardinality(Places(s))
  BY DEF DataIn, Places
<1> QED
  BY <1>4, <1>5, FS_CardinalityType

\* An empty mailbox holds none.
LEMMA DataInEmpty ==
  DataIn(<<>>) = 0 /\ <<>> \in Seq(MailType) /\ Len(<<>>) = 0
<1>1. Places(<<>>) = {}
  BY DEF Places
<1> QED
  BY <1>1, PlacesFinite, FS_EmptySet, EmptySeq

\* sys_mbox_trypost(): one more if what is posted is data.
LEMMA DataInAppend ==
  ASSUME NEW s \in Seq(MailType), NEW m \in MailType
  PROVE  /\ Append(s, m) \in Seq(MailType)
         /\ DataIn(Append(s, m)) = DataIn(s) + Bit(m = "data")
         /\ Append(s, m) # <<>>
         /\ Len(Append(s, m)) = Len(s) + 1 /\ Len(s) \in Nat
<1> DEFINE t == Append(s, m)
<1>1. /\ t \in Seq(MailType) /\ t # <<>>
      /\ Len(t) = Len(s) + 1 /\ Len(s) \in Nat
      /\ \A i \in 1 .. Len(s) : t[i] = s[i]
      /\ t[Len(s) + 1] = m
  BY AppendProperties, LenProperties
<1>2. CASE m = "data"
  <2>1. Places(t) = Places(s) \cup {Len(s) + 1} /\ Len(s) + 1 \notin Places(s)
    BY <1>1, <1>2 DEF Places
  <2>2. Cardinality(Places(t)) = Cardinality(Places(s)) + 1
    BY <2>1, PlacesFinite, FS_AddElement
  <2> QED
    BY <1>1, <1>2, <2>2, PlacesFinite DEF Bit
<1>3. CASE m # "data"
  <2>1. Places(t) = Places(s)
    BY <1>1, <1>3 DEF Places
  <2>2. DataIn(t) = DataIn(s) /\ DataIn(s) \in Nat
    BY <1>1, <2>1, PlacesFinite
  <2>3. Bit(m = "data") = 0
    BY <1>3 DEF Bit
  <2> QED
    BY <1>1, <2>2, <2>3
<1> QED
  BY <1>2, <1>3

\* sys_arch_mbox_fetch(): one less if what is fetched is data.
LEMMA DataInTail ==
  ASSUME NEW s \in Seq(MailType), s # <<>>
  PROVE  /\ Tail(s) \in Seq(MailType) /\ Head(s) \in MailType
         /\ DataIn(s) = DataIn(Tail(s)) + Bit(Head(s) = "data")
         /\ Len(Tail(s)) = Len(s) - 1 /\ Len(s) \in Nat \ {0}
<1> DEFINE t == Tail(s)
<1>1. /\ t \in Seq(MailType) /\ Head(s) \in MailType /\ Head(s) = s[1]
      /\ Len(t) = Len(s) - 1 /\ Len(s) \in Nat \ {0}
      /\ \A i \in 1 .. Len(t) : t[i] = s[i + 1]
  BY HeadTailProperties, EmptySeq, LenProperties
<1> DEFINE P == {i \in Places(s) : i > 1}
<1>2. IsFiniteSet(P) /\ Cardinality(P) = Cardinality(Places(t))
  <2> DEFINE h == [i \in Places(t) |-> i + 1]
  <2>1. h \in Bijection(Places(t), P)
    <3>1. \A i \in Places(t) : i + 1 \in P
      BY <1>1 DEF Places
    <3>2. \A j \in P : j - 1 \in Places(t) /\ h[j - 1] = j
      BY <1>1 DEF Places
    <3>3. \A i, j \in Places(t) : h[i] = h[j] => i = j
      BY DEF Places
    <3>4. h \in [Places(t) -> P]
      BY <3>1
    <3>5. \A j \in P : \E i \in Places(t) : h[i] = j
      BY <3>2
    <3> HIDE DEF h, P
    <3> QED
      BY <3>3, <3>4, <3>5 DEF Bijection, Injection, Surjection, IsInjective
  <2>2. ExistsBijection(Places(t), P)
    BY <2>1 DEF ExistsBijection
  <2> QED
    BY <1>1, <2>2, PlacesFinite, FS_Bijection
<1>3. CASE Head(s) = "data"
  <2>1. Places(s) = P \cup {1} /\ 1 \notin P
    BY <1>1, <1>3 DEF Places
  <2>2. Cardinality(Places(s)) = Cardinality(P) + 1
    BY <1>2, <2>1, FS_AddElement
  <2> QED
    BY <1>1, <1>2, <1>3, <2>2, PlacesFinite DEF Bit
<1>4. CASE Head(s) # "data"
  <2>1. Places(s) = P
    BY <1>1, <1>4 DEF Places
  <2>2. DataIn(t) = DataIn(s) /\ DataIn(s) \in Nat
    BY <1>1, <1>2, <2>1, PlacesFinite
  <2>3. Bit(Head(s) = "data") = 0
    BY <1>4 DEF Bit
  <2> QED
    BY <1>1, <2>2, <2>3
<1> QED
  BY <1>3, <1>4

-----------------------------------------------------------------------------
(* What each operator on connections keeps.                                *)

\* What the fields of a blank pcb and netconn may be.
LEMMA Values ==
  /\ 0 \in Lengths /\ 0 \in PollCounts /\ PollsLeft \in PollCounts /\ 0 \in Inflight
  /\ {"none", "write", "close"} \subseteq Operations
  /\ {"none", "rd", "rdwr"} \subseteq Halves
  /\ {"free", "syn", "est", "closewait", "finwait1", "finwait2", "closing", "lastack", "timewait"}
       \subseteq PcbStates
  /\ <<>> \in Mailboxes /\ Bits = 0 .. 1 /\ 0 \in Bits /\ 1 \in Bits
BY DataInEmpty, SizeAssumption DEF Bits, Lengths, PollCounts, Inflight, Operations, Halves,
  PcbStates, Active, Mailboxes

\* tcp_alloc() and netconn_alloc(): what a new or absent pcb and netconn are.
LEMMA Blank ==
  /\ NoPcb \in PcbType /\ NoPcb.state = "free" /\ ~NoPcb.owned /\ NoPcb.refused = 0
  /\ NoPcb.unread = 0 /\ ~NoPcb.rxClosed /\ ~NoPcb.refusedFin /\ ~NoPcb.closePend
  /\ NewPcb \in PcbType /\ NewPcb.state = "syn" /\ ~NewPcb.owned /\ NewPcb.refused = 0
  /\ NewPcb.unread = 0 /\ ~NewPcb.rxClosed /\ ~NewPcb.refusedFin /\ ~NewPcb.closePend
  /\ NoNetconn \in NetconnType /\ ~NoNetconn.used /\ ~NoNetconn.pcb /\ ~NoNetconn.valid
  /\ NoNetconn.state = "none" /\ ~NoNetconn.msg /\ NoNetconn.done = 0
  /\ NoNetconn.recvmbox = <<>>
<1>1. NoPcb \in PcbType
  BY Values DEF NoPcb, PcbType
<1>2. NewPcb \in PcbType
  BY Values DEF NoPcb, NewPcb, PcbType
<1>3. NoNetconn \in NetconnType
  BY Values DEF NoNetconn, NetconnType
<1> QED
  BY <1>1, <1>2, <1>3 DEF NoPcb, NewPcb, NoNetconn

\* The types of the parts of a connection the lemmas below count with.
LEMMA Parts ==
  ASSUME NEW x \in ConnType
  PROVE  /\ x.p \in PcbType /\ x.n \in NetconnType /\ x.b \in Nat /\ x.lost \in 0 .. 1
         /\ x.n.recvmbox \in Seq(MailType) /\ Len(x.n.recvmbox) \in Nat
         /\ DataIn(x.n.recvmbox) \in Nat
         /\ x.p.refused \in 0 .. 1 /\ x.p.unread \in Nat /\ Bit(x.p.refusedFin) \in 0 .. 1
<1>1. /\ x.p \in PcbType /\ x.n \in NetconnType /\ x.b \in Nat /\ x.lost \in 0 .. 1
      /\ x.n.recvmbox \in Seq(MailType) /\ x.p.refused \in 0 .. 1 /\ x.p.unread \in Nat
  BY Values DEF ConnType, NetconnType, PcbType, Mailboxes
<1> QED
  BY <1>1, PlacesFinite, LenProperties, BitType

\* A request that ends leaves nothing but its answer.
LEMMA CompleteIs ==
  ASSUME NEW n \in NetconnType
  PROVE  /\ Complete(n) \in NetconnType
         /\ Complete(n).used = n.used /\ Complete(n).pcb = n.pcb
         /\ Complete(n).valid = n.valid /\ Complete(n).recvmbox = n.recvmbox
         /\ ~Complete(n).msg /\ Complete(n).state = "none" /\ Complete(n).done = 1
<1> DEFINE m == [n EXCEPT !.msg = FALSE, !.state = "none", !.left = 0, !.shut = "none", !.polls = 0]
<1>1. m \in NetconnType
  BY Values DEF NetconnType
<1>2. /\ m.used = n.used /\ m.pcb = n.pcb /\ m.valid = n.valid /\ m.recvmbox = n.recvmbox
      /\ ~m.msg /\ m.state = "none"
  BY DEF NetconnType
<1>3. Complete(n) = [m EXCEPT !.done = 1]
  BY DEF Complete, Signalled
<1> HIDE DEF m
<1> QED
  BY <1>1, <1>2, <1>3, Values DEF NetconnType

\* err_tcp() ends the request in hand, takes the pcb from the netconn and leaves
\* something in its mailbox to be found, whatever room there is.
LEMMA ErrKeeps ==
  ASSUME NEW n \in NetconnType, NEW a \in Roles, NEW o \in 0 .. 1,
         NetconnInv(n, a, o), n.pcb
  PROVE  /\ Err(n) \in NetconnType
         /\ NetconnInv(Err(n), a, o)
         /\ ~Err(n).pcb /\ Err(n).state = "none" /\ Err(n).valid = n.valid
         /\ DataIn(Err(n).recvmbox) = DataIn(n.recvmbox)
         /\ n.valid => Err(n).recvmbox # <<>>
<1> DEFINE box == IF n.valid /\ Room(n) THEN Append(n.recvmbox, "eof") ELSE n.recvmbox
           m   == [n EXCEPT !.pcb = FALSE, !.fatal = @ \/ n.state # "close", !.recvmbox = box]
<1>1. Err(n) = IF n.state = "none" THEN m ELSE Complete(m)
  BY DEF Err, Room, NetconnType
<1>2. n.recvmbox \in Seq(MailType) /\ Len(n.recvmbox) \in Nat
  BY LenProperties DEF NetconnType, Mailboxes
<1>3. /\ box \in Seq(MailType) /\ DataIn(box) = DataIn(n.recvmbox)
      /\ Len(box) <= RecvSize
      /\ n.valid => box # <<>>
      /\ ~n.valid => box = n.recvmbox
  <2>1. CASE n.valid /\ Room(n)
    <3>1. /\ DataIn(Append(n.recvmbox, "eof")) = DataIn(n.recvmbox) + Bit("eof" = "data")
          /\ Append(n.recvmbox, "eof") \in Seq(MailType)
          /\ Append(n.recvmbox, "eof") # <<>>
          /\ Len(Append(n.recvmbox, "eof")) = Len(n.recvmbox) + 1
      BY <1>2, DataInAppend DEF MailType
    <3>2. Bit("eof" = "data") = 0 /\ DataIn(n.recvmbox) \in Nat
      BY <1>2, PlacesFinite DEF Bit
    <3> QED
      BY <1>2, <2>1, <3>1, <3>2, Sizes DEF Room
  <2>2. CASE ~(n.valid /\ Room(n))
    <3>1. n.valid => n.recvmbox # <<>>
      BY <1>2, <2>2, DataInEmpty, Sizes DEF Room
    <3> QED
      BY <1>2, <2>2, <3>1 DEF NetconnInv
  <2> QED
    BY <2>1, <2>2
<1> HIDE DEF box
<1>4. Err(n) \in NetconnType /\ ~Err(n).pcb /\ Err(n).state = "none" /\ Err(n).valid = n.valid
      /\ Err(n).recvmbox = box /\ Err(n).used = n.used /\ ~Err(n).msg
      /\ Err(n).done = IF n.state = "none" THEN n.done ELSE 1
  <2>1. /\ m \in NetconnType /\ ~m.pcb /\ m.valid = n.valid /\ m.recvmbox = box
        /\ m.used = n.used /\ m.state = n.state /\ m.done = n.done /\ m.msg = n.msg
    BY <1>3 DEF NetconnType, Mailboxes
  <2> HIDE DEF m
  <2>2. CASE n.state = "none"
    BY <1>1, <2>1, <2>2 DEF NetconnInv
  <2>3. CASE n.state # "none"
    <3>1. Err(n) = Complete(m)
      BY <1>1, <2>3
    <3> QED
      BY <2>1, <2>3, <3>1, CompleteIs
  <2> QED
    BY <2>2, <2>3
<1>5. NetconnInv(Err(n), a, o)
  <2>1. n # NoNetconn /\ Err(n) # NoNetconn
    BY <1>4 DEF NetconnInv, NoNetconn
  <2>2. /\ n.msg <=> n.state # "none"
        /\ a \in Asking /\ o = 0 => (n.msg <=> n.done = 0)
        /\ a \notin Asking \/ o = 1 => ~n.msg /\ n.done = 0
    BY DEF NetconnInv
  <2>3. /\ a \in Asking /\ o = 0 => Err(n).done # 0
        /\ a \notin Asking \/ o = 1 => Err(n).done = 0
    BY <1>4, <2>2
  <2> HIDE DEF m
  <2>4. /\ Err(n).used <=> a # "free"
        /\ a = "free" <=> Err(n) = NoNetconn
        /\ a = "delete" /\ o = 0 => ~Err(n).valid
        /\ a \in Early \cup {"recved", "write"} => Err(n).valid
        /\ a = "shut" /\ o = 1 => Err(n).valid
        /\ ~Err(n).valid => Err(n).recvmbox = <<>>
    BY <1>3, <1>4, <2>1 DEF NetconnInv
  <2> QED
    BY <1>3, <1>4, <2>3, <2>4 DEF NetconnInv
<1> QED
  BY <1>3, <1>4, <1>5

\* Removed(): the pcb is free, what it had refused is freed.
LEMMA RemovedKeeps ==
  ASSUME NEW x, NEW a \in Roles, NEW o \in 0 .. 1, NEW u \in 0 .. 1,
         NEW s \in Nat, NEW f \in 0 .. 1, NEW d \in 0 .. 1, NEW g \in 0 .. 1,
         ConnInv(x, a, o, u, s, f, d, g), x.p.state # "syn"
  PROVE  /\ ConnInv(Removed(x), a, o, u, s, f, d, g)
         /\ Removed(x).p = NoPcb /\ Removed(x).lost = x.lost
<1> DEFINE n == IF x.p.owned /\ x.p.state # "timewait" THEN Err(x.n) ELSE x.n
<1>1. Removed(x) = [x EXCEPT !.p = NoPcb, !.b = @ - x.p.refused, !.n = n]
  BY DEF Removed, ConnInv, ConnType
<1>2. x \in ConnType /\ x.p \in PcbType /\ x.n \in NetconnType /\ x.b \in Nat
      /\ DataIn(x.n.recvmbox) \in Nat
      /\ x.p.refused \in 0 .. 1 /\ x.p.unread \in Nat
  BY PlacesFinite, BitType, Values DEF ConnInv, ConnType, NetconnType, PcbType, Mailboxes
<1>3. /\ n \in NetconnType /\ NetconnInv(n, a, o)
      /\ DataIn(n.recvmbox) = DataIn(x.n.recvmbox)
      /\ n.pcb => n = x.n /\ n.state = "close"
      /\ a \in Early => n.recvmbox # <<>>
  <2>1. CASE x.p.owned /\ x.p.state # "timewait"
    <3>1. x.n.pcb
      BY <2>1 DEF ConnInv, PcbInv
    <3>2. a \in Early => x.n.valid
      BY DEF ConnInv, NetconnInv
    <3> QED
      BY <1>2, <2>1, <3>1, <3>2, ErrKeeps DEF ConnInv
  <2>2. CASE ~(x.p.owned /\ x.p.state # "timewait")
    <3>1. n = x.n
      BY <2>2
    <3>2. x.n.pcb => x.n.state = "close"
      BY <2>2 DEF ConnInv, PcbInv, Active
    <3>3. a \in Early => x.n.recvmbox # <<>>
      BY <2>2, <3>2 DEF ConnInv, EarlyInv, PcbInv, NetconnInv, Early
    <3> QED
      BY <1>2, <3>1, <3>2, <3>3 DEF ConnInv
  <2> QED
    BY <2>1, <2>2
<1> HIDE DEF n
<1>4. NoPcb \in PcbType /\ NoPcb.state = "free" /\ ~NoPcb.owned /\ NoPcb.refused = 0
      /\ NoPcb.unread = 0 /\ ~NoPcb.rxClosed /\ ~NoPcb.refusedFin /\ ~NoPcb.closePend
  BY Blank
<1>5. x.b - x.p.refused \in Nat
  BY <1>2 DEF ConnInv, CountInv
<1>6. /\ Removed(x) \in ConnType
      /\ Removed(x).p = NoPcb /\ Removed(x).n = n /\ Removed(x).lost = x.lost
      /\ Removed(x).b = x.b - x.p.refused
  BY <1>1, <1>2, <1>3, <1>4, <1>5 DEF ConnType
<1>7. PcbInv(NoPcb, n, f, d, g)
  BY <1>3, <1>4 DEF PcbInv, Active
<1>8. CountInv(Removed(x), a, o, u, s, f, d, g)
  <2>1. /\ x.b = x.p.refused + DataIn(x.n.recvmbox) + u + d
        /\ x.b <= s /\ x.p.refused \in 0 .. 1
    BY <1>2 DEF ConnInv, CountInv
  <2>2. /\ Removed(x).b = DataIn(Removed(x).n.recvmbox) + u + d
        /\ Removed(x).b <= s
    BY <1>2, <1>3, <1>6, <2>1
  <2> QED
    BY <1>2, <1>3, <1>4, <1>6, <2>2 DEF CountInv
<1> QED
  BY <1>3, <1>6, <1>7, <1>8 DEF ConnInv, EarlyInv

\* The pcb tells the netconn no data, or nothing at all.
Untold(p) == p.owned => p.rxClosed

\* Data that are dropped with their pcb are counted no more.
LEMMA DropKeeps ==
  ASSUME NEW x, NEW a \in Roles, NEW o \in 0 .. 1, NEW u \in 0 .. 1,
         NEW s \in Nat, NEW f \in 0 .. 1, NEW d \in 0 .. 1, NEW g \in 0 .. 1,
         ConnInv(x, a, o, u, s, f, d, g), Untold(x.p)
  PROVE  \A y \in ConnType : y.p = x.p /\ y.n = x.n /\ y.b = x.b - d =>
           \A h \in 0 .. g : ConnInv(y, a, o, u, s, f, 0, h)
<1> SUFFICES ASSUME NEW y \in ConnType, y.p = x.p, y.n = x.n, y.b = x.b - d,
                    NEW h \in 0 .. g
             PROVE  ConnInv(y, a, o, u, s, f, 0, h)
  OBVIOUS
<1>1. x \in ConnType /\ x.p \in PcbType /\ x.n \in NetconnType /\ x.b \in Nat
      /\ DataIn(x.n.recvmbox) \in Nat
      /\ x.p.refused \in 0 .. 1 /\ x.p.unread \in Nat
  BY PlacesFinite, BitType, Values DEF ConnInv, ConnType, NetconnType, PcbType, Mailboxes
<1>3. CountInv(y, a, o, u, s, f, 0, h)
  BY <1>1 DEF ConnInv, CountInv, ConnType, Untold, PcbType
<1>4. a \in Early => y.n.recvmbox # <<>>
  <2>1. SUFFICES ASSUME a \in Early PROVE x.n.recvmbox # <<>>
    OBVIOUS
  <2>2. x.n.valid
    BY <2>1 DEF ConnInv, NetconnInv
  <2>3. ~x.p.owned
    BY <2>2 DEF ConnInv, PcbInv, Untold
  <2> QED
    BY <2>1, <2>3 DEF ConnInv, EarlyInv, PcbInv
<1>5. NetconnInv(y.n, a, o)
  BY DEF ConnInv
<1>6. PcbInv(y.p, y.n, f, 0, h)
  BY DEF ConnInv, PcbInv
<1> QED
  BY <1>3, <1>4, <1>5, <1>6 DEF ConnInv, EarlyInv

\* The invariant of a connection together with what its arguments may be.
Fits(x, a, o, u, s, f, d, g) ==
  /\ a \in Roles /\ o \in 0 .. 1 /\ u \in 0 .. 1
  /\ s \in Nat /\ f \in 0 .. 1 /\ d \in 0 .. 1 /\ g \in 0 .. 1
  /\ ConnInv(x, a, o, u, s, f, d, g)

\* A pcb that callbacks may be called for; and what they leave alone.
Alive(x) == x.p.state \notin {"free", "syn"}
After(x, y) == y.p.state # "syn" /\ y.lost = x.lost

\* recv_tcp() of data: it is in the mailbox or refused.
LEMMA TellDataKeeps ==
  ASSUME NEW x, NEW a, NEW o, NEW u, NEW s, NEW f, NEW d, NEW g,
         Fits(x, a, o, u, s, f, d, g), Alive(x)
  PROVE  Fits(TellData(x, d), a, o, u, s, f, 0, g) /\ After(x, TellData(x, d))
<1> SUFFICES ASSUME a \in Roles, o \in 0 .. 1, u \in 0 .. 1, s \in Nat, f \in 0 .. 1,
                    d \in 0 .. 1, g \in 0 .. 1, ConnInv(x, a, o, u, s, f, d, g),
                    x.p.state \notin {"free", "syn"}
             PROVE  /\ ConnInv(TellData(x, d), a, o, u, s, f, 0, g)
                    /\ TellData(x, d).p.state # "syn" /\ TellData(x, d).lost = x.lost
  BY DEF Fits, Alive, After
<1>1. x \in ConnType /\ x.p \in PcbType /\ x.n \in NetconnType /\ x.b \in Nat
      /\ x.n.recvmbox \in Seq(MailType) /\ Len(x.n.recvmbox) \in Nat
      /\ DataIn(x.n.recvmbox) \in Nat /\ x.p.refused \in 0 .. 1 /\ x.p.unread \in Nat
  BY PlacesFinite, LenProperties, Values DEF ConnInv, ConnType, NetconnType, PcbType, Mailboxes
<1>2. CASE d = 0
  BY <1>2 DEF TellData
<1>3. CASE d = 1 /\ x.p.rxClosed
  <2> DEFINE y == [x EXCEPT !.b = @ - d]
  <2>0. x.b - d \in Nat
    BY <1>1, <1>3, BitType DEF ConnInv, CountInv
  <2>1. y \in ConnType /\ y.p = x.p /\ y.n = x.n /\ y.b = x.b - d /\ y.lost = x.lost
    BY <1>1, <2>0 DEF ConnType
  <2> HIDE DEF y
  <2>2. ConnInv(y, a, o, u, s, f, 0, g)
    <3>1. Untold(x.p)
      BY <1>3 DEF Untold
    <3> QED
      BY <2>1, <3>1, DropKeeps
  <2>3. TellData(x, d) = Removed(y)
    BY <1>3 DEF TellData, y
  <2>4. y.p.state # "syn"
    BY <2>1
  <2>5. /\ ConnInv(Removed(y), a, o, u, s, f, 0, g) /\ Removed(y).p = NoPcb
        /\ Removed(y).lost = y.lost
    BY <2>2, <2>4, RemovedKeeps
  <2> QED
    BY <1>3, <2>1, <2>3, <2>5 DEF NoPcb
<1>4. CASE d = 1 /\ ~x.p.rxClosed
  <2>1. x.p.state \in {"est", "closewait"} /\ x.p.owned /\ x.n.valid /\ x.n.pcb
    BY <1>1, <1>4 DEF ConnInv, PcbInv
  <2>2. x.p.refused = 0 /\ ~x.p.refusedFin
    BY <1>4 DEF ConnInv, PcbInv
  <2>3. CASE Room(x.n)
    <3> DEFINE box == Append(x.n.recvmbox, "data")
               y   == [x EXCEPT !.n.recvmbox = box]
    <3>1. TellData(x, d) = y
      BY <1>4, <2>1, <2>3 DEF TellData, Recv
    <3>2. /\ box \in Mailboxes /\ DataIn(box) = DataIn(x.n.recvmbox) + 1
          /\ box # <<>> /\ Len(box) <= RecvSize
      <4>1. /\ box \in Seq(MailType) /\ DataIn(box) = DataIn(x.n.recvmbox) + Bit("data" = "data")
            /\ box # <<>> /\ Len(box) = Len(x.n.recvmbox) + 1
        BY <1>1, DataInAppend DEF MailType
      <4>2. Bit("data" = "data") = 1
        BY DEF Bit
      <4> QED
        BY <1>1, <2>3, <4>1, <4>2, Sizes DEF Room, Mailboxes
    <3> HIDE DEF box
    <3>3. /\ y \in ConnType /\ y.p = x.p /\ y.b = x.b /\ y.lost = x.lost
          /\ y.n = [x.n EXCEPT !.recvmbox = box]
          /\ y.n \in NetconnType
      BY <1>1, <3>2 DEF ConnType, NetconnType
    <3> HIDE DEF y
    <3>4. /\ y.n.recvmbox = box /\ y.n.used = x.n.used /\ y.n.pcb = x.n.pcb
          /\ y.n.state = x.n.state /\ y.n.valid = x.n.valid /\ y.n.msg = x.n.msg
          /\ y.n.done = x.n.done /\ y.n.shut = x.n.shut
      BY <1>1, <3>3 DEF NetconnType
    <3>5. NetconnInv(y.n, a, o)
      <4>1. y.n # NoNetconn /\ x.n # NoNetconn
        BY <2>1, <3>4, Blank
      <4> QED
        BY <2>1, <3>2, <3>4, <4>1 DEF ConnInv, NetconnInv
    <3>6. PcbInv(y.p, y.n, f, 0, g)
      BY <1>4, <2>1, <2>2, <3>3, <3>4 DEF ConnInv, PcbInv
    <3>7. CountInv(y, a, o, u, s, f, 0, g)
      <4>1. CountInv(x, a, o, u, s, f, 1, g)
        BY <1>4 DEF ConnInv
      <4> QED
        <5>1. /\ x.b = x.p.refused + DataIn(x.n.recvmbox) + u + 1
              /\ x.b <= s /\ x.p.unread <= s + f
              /\ x.p.unread = x.p.refused + Bit(x.p.refusedFin) + DataIn(x.n.recvmbox)
                      + Due(a, o, u) + 1 + g
          BY <4>1, <1>4, <2>1 DEF CountInv
        <5>2. /\ y.b = y.p.refused + DataIn(y.n.recvmbox) + u + 0
              /\ y.b <= s /\ y.p.unread <= s + f
          BY <1>1, <3>2, <3>3, <3>4, <5>1, BitType
        <5>3. y.p.unread = y.p.refused + Bit(y.p.refusedFin) + DataIn(y.n.recvmbox)
                      + Due(a, o, u) + 0 + g
          <6>1. Due(a, o, u) \in 0 .. 1 /\ Bit(x.p.refusedFin) \in 0 .. 1
            BY BitType
          <6> QED
            BY <1>1, <3>2, <3>3, <3>4, <5>1, <6>1, SMTT(30)
        <5> QED
          BY <5>2, <5>3 DEF CountInv
    <3> QED
      BY <2>1, <3>1, <3>2, <3>3, <3>4, <3>5, <3>6, <3>7 DEF ConnInv, EarlyInv
  <2>4. CASE ~Room(x.n)
    <3> DEFINE y == [x EXCEPT !.p.refused = 1]
    <3>1. TellData(x, d) = y
      BY <1>4, <2>1, <2>4 DEF TellData, Recv
    <3>2. /\ y \in ConnType /\ y.n = x.n /\ y.b = x.b /\ y.lost = x.lost
          /\ y.p = [x.p EXCEPT !.refused = 1] /\ y.p \in PcbType
      <4>1. [x.p EXCEPT !.refused = 1] \in PcbType
        BY <1>1, Values DEF PcbType
      <4> QED
        BY <1>1, <4>1 DEF ConnType
    <3> HIDE DEF y
    <3>3. /\ y.p.refused = 1 /\ y.p.state = x.p.state /\ y.p.owned = x.p.owned
          /\ y.p.rxClosed = x.p.rxClosed /\ y.p.closePend = x.p.closePend
          /\ y.p.refusedFin = x.p.refusedFin /\ y.p.unread = x.p.unread
      BY <1>1, <3>2 DEF PcbType
    <3>4. x.n.recvmbox # <<>>
      BY <1>1, <2>4, DataInEmpty, Sizes DEF Room
    <3>5. PcbInv(y.p, y.n, f, 0, g)
      BY <1>4, <2>1, <2>2, <3>2, <3>3 DEF ConnInv, PcbInv
    <3>6. CountInv(y, a, o, u, s, f, 0, g)
      BY <1>1, <1>4, <2>2, <3>2, <3>3, BitType DEF ConnInv, CountInv
    <3> QED
      BY <2>1, <3>1, <3>2, <3>3, <3>4, <3>5, <3>6 DEF ConnInv, EarlyInv
  <2> QED
    BY <2>3, <2>4
<1> QED
  BY <1>2, <1>3, <1>4

\* The FIN is told to an application that listens, or to nobody.
LEMMA TellFinKeeps ==
  ASSUME NEW x, NEW a \in Roles, NEW o \in 0 .. 1, NEW u \in 0 .. 1,
         NEW s \in Nat, NEW f \in 0 .. 1,
         ConnInv(x, a, o, u, s, f, 0, 1), x.p.state \notin {"free", "syn"}
  PROVE  /\ ConnInv(TellFin(x), a, o, u, s, f, 0, 0)
         /\ TellFin(x).p.state = x.p.state /\ TellFin(x).lost = x.lost
<1> DEFINE y == [x EXCEPT !.p.unread = IF @ = 0 THEN 0 ELSE @ - 1]
           v == IF x.p.unread = 0 THEN 0 ELSE x.p.unread - 1
<1>1. x \in ConnType
  BY DEF ConnInv
<1>2. v \in Nat
  BY <1>1, Parts
<1>3. /\ y \in ConnType /\ y.n = x.n /\ y.b = x.b /\ y.lost = x.lost
      /\ y.p = [x.p EXCEPT !.unread = v] /\ y.p \in PcbType
  <2>1. [x.p EXCEPT !.unread = v] \in PcbType
    BY <1>1, <1>2, Parts DEF PcbType
  <2> QED
    BY <1>1, <2>1 DEF ConnType
<1>4. /\ y.p.state = x.p.state /\ y.p.owned = x.p.owned /\ y.p.rxClosed = x.p.rxClosed
      /\ y.p.closePend = x.p.closePend /\ y.p.refused = x.p.refused
      /\ y.p.refusedFin = x.p.refusedFin /\ y.p.unread = v
  BY <1>1, <1>3, Parts DEF PcbType
<1>5. TellFin(x) = IF x.p.owned /\ ~x.p.rxClosed THEN Recv(y, "eof").x ELSE y
  BY DEF TellFin
<1> HIDE DEF y
<1>6. PcbInv(y.p, y.n, f, 0, 0)
  BY <1>3, <1>4 DEF ConnInv, PcbInv
<1>7. CountInv(y, a, o, u, s, f, 0, 0)
  <2>1. CountInv(x, a, o, u, s, f, 0, 1)
    BY DEF ConnInv
  <2>2. y.b = y.p.refused + DataIn(y.n.recvmbox) + u + 0 /\ y.b <= s
    BY <1>3, <1>4, <2>1 DEF CountInv
  <2>3. v <= s + f
    BY <1>1, <2>1, Parts DEF CountInv
  <2>4. x.p.owned /\ ~x.p.rxClosed =>
          v = x.p.refused + Bit(x.p.refusedFin) + DataIn(x.n.recvmbox) + Due(a, o, u) + 0 + 0
    <3>1. SUFFICES ASSUME x.p.owned /\ ~x.p.rxClosed
                   PROVE  v = x.p.refused + Bit(x.p.refusedFin) + DataIn(x.n.recvmbox)
                                + Due(a, o, u) + 0 + 0
      OBVIOUS
    <3>2. x.p.unread = x.p.refused + Bit(x.p.refusedFin) + DataIn(x.n.recvmbox)
                         + Due(a, o, u) + 0 + 1
      BY <2>1, <3>1 DEF CountInv
    <3>3. Due(a, o, u) \in 0 .. 1
      BY BitType
    <3>4. x.p.unread # 0 /\ v = x.p.unread - 1
      BY <1>1, <3>2, <3>3, Parts
    <3> QED
      BY <1>1, <3>2, <3>3, <3>4, Parts
  <2> QED
    BY <1>3, <1>4, <2>2, <2>3, <2>4 DEF CountInv
<1>8. CASE ~(x.p.owned /\ ~x.p.rxClosed)
  <2>1. a \in Early => y.n.recvmbox # <<>>
    <3>1. SUFFICES ASSUME a \in Early PROVE x.n.recvmbox # <<>>
      BY <1>3
    <3>2. x.n.valid
      BY <3>1 DEF ConnInv, NetconnInv
    <3>3. ~x.p.owned
      BY <1>8, <3>2 DEF ConnInv, PcbInv
    <3> QED
      BY <3>1, <3>3 DEF ConnInv, EarlyInv, PcbInv
  <2> QED
    BY <1>3, <1>4, <1>5, <1>6, <1>7, <1>8, <2>1 DEF ConnInv, EarlyInv
<1>9. CASE x.p.owned /\ ~x.p.rxClosed
  <2>1. x.n.valid /\ x.n.pcb
    BY <1>9 DEF ConnInv, PcbInv
  <2>2. CASE ~Room(x.n)
    <3>1. TellFin(x) = y
      BY <1>3, <1>5, <1>9, <2>1, <2>2 DEF Recv
    <3>2. x.n.recvmbox # <<>>
      BY <2>2, DataInEmpty, Sizes DEF Room
    <3> QED
      BY <1>3, <1>4, <1>6, <1>7, <3>1, <3>2 DEF ConnInv, EarlyInv
  <2>3. CASE Room(x.n)
    <3> DEFINE box == Append(x.n.recvmbox, "eof")
               z   == [y EXCEPT !.n.recvmbox = box]
    <3>1. TellFin(x) = z
      BY <1>3, <1>5, <1>9, <2>1, <2>3 DEF Recv
    <3>2. /\ box \in Mailboxes /\ DataIn(box) = DataIn(x.n.recvmbox)
          /\ box # <<>> /\ Len(box) <= RecvSize
      <4>1. /\ box \in Seq(MailType) /\ DataIn(box) = DataIn(x.n.recvmbox) + Bit("eof" = "data")
            /\ box # <<>> /\ Len(box) = Len(x.n.recvmbox) + 1
        BY <1>1, Parts, DataInAppend DEF MailType
      <4>2. Bit("eof" = "data") = 0
        BY DEF Bit
      <4> QED
        BY <1>1, <2>3, <4>1, <4>2, Parts, Sizes DEF Room, Mailboxes
    <3> HIDE DEF box
    <3>3. /\ z \in ConnType /\ z.p = y.p /\ z.b = y.b /\ z.lost = x.lost
          /\ z.n = [x.n EXCEPT !.recvmbox = box]
          /\ z.n \in NetconnType
      BY <1>1, <1>3, <3>2, Parts DEF ConnType, NetconnType
    <3> HIDE DEF z
    <3>4. /\ z.n.recvmbox = box /\ z.n.used = x.n.used /\ z.n.pcb = x.n.pcb
          /\ z.n.state = x.n.state /\ z.n.valid = x.n.valid /\ z.n.msg = x.n.msg
          /\ z.n.done = x.n.done /\ z.n.shut = x.n.shut
      BY <1>1, <3>3, Parts DEF NetconnType
    <3>5. NetconnInv(z.n, a, o)
      <4>1. z.n # NoNetconn /\ x.n # NoNetconn
        BY <2>1, <3>4, Blank
      <4> QED
        BY <2>1, <3>2, <3>4, <4>1 DEF ConnInv, NetconnInv
    <3>6. PcbInv(z.p, z.n, f, 0, 0)
      <4>1. z.p.state # "syn"
        BY <1>4, <3>3
      <4> QED
        BY <1>3, <1>6, <3>3, <3>4, <4>1 DEF PcbInv
    <3>7. CountInv(z, a, o, u, s, f, 0, 0)
      BY <1>3, <1>7, <3>2, <3>3, <3>4 DEF CountInv
    <3> QED
      BY <1>4, <3>1, <3>2, <3>3, <3>4, <3>5, <3>6, <3>7 DEF ConnInv, EarlyInv
  <2> QED
    BY <2>2, <2>3
<1> QED
  BY <1>8, <1>9

\* What a segment brings is told, data first: a FIN behind refused data waits.
LEMMA TellFinTooKeeps ==
  ASSUME NEW x, NEW a \in Roles, NEW o \in 0 .. 1, NEW u \in 0 .. 1,
         NEW s \in Nat, NEW f \in 0 .. 1, NEW g \in 0 .. 1, NEW told \in BOOLEAN,
         ConnInv(x, a, o, u, s, f, 0, g), x.p.state \notin {"free", "syn"},
         told <=> g = 1, g <= f
  PROVE  /\ ConnInv(TellFinToo(x, told), a, o, u, s, f, 0, 0)
         /\ TellFinToo(x, told).lost = x.lost /\ TellFinToo(x, told).p.state # "syn"
<1>1. CASE g = 0
  BY <1>1 DEF TellFinToo
<1>2. CASE g = 1 /\ ~(x.p.refused > 0)
  <2>1. TellFinToo(x, told) = TellFin(x)
    BY <1>2 DEF TellFinToo
  <2> QED
    BY <1>2, <2>1, TellFinKeeps
<1>3. CASE g = 1 /\ x.p.refused > 0
  <2> DEFINE y == [x EXCEPT !.p.refusedFin = TRUE]
  <2>1. TellFinToo(x, told) = y
    BY <1>3 DEF TellFinToo
  <2>2. x \in ConnType
    BY DEF ConnInv
  <2>3. /\ y \in ConnType /\ y.n = x.n /\ y.b = x.b /\ y.lost = x.lost
        /\ y.p = [x.p EXCEPT !.refusedFin = TRUE] /\ y.p \in PcbType
    <3>1. [x.p EXCEPT !.refusedFin = TRUE] \in PcbType
      BY <2>2, Parts DEF PcbType
    <3> QED
      BY <2>2, <3>1 DEF ConnType
  <2> HIDE DEF y
  <2>4. /\ y.p.state = x.p.state /\ y.p.owned = x.p.owned /\ y.p.rxClosed = x.p.rxClosed
        /\ y.p.closePend = x.p.closePend /\ y.p.refused = x.p.refused
        /\ y.p.refusedFin /\ y.p.unread = x.p.unread
    BY <2>2, <2>3, Parts DEF PcbType
  <2>5. x.p.refused = 1 /\ ~x.p.rxClosed /\ ~x.p.refusedFin /\ f = 1
    <3>1. x.p.refused = 1 /\ f = 1
      BY <1>3, <2>2, Parts
    <3>2. ~x.p.rxClosed
      BY <1>3, <2>2, Parts DEF ConnInv, PcbInv
    <3> QED
      BY <1>3, <3>1, <3>2 DEF ConnInv, PcbInv
  <2>6. Bit(x.p.refusedFin) = 0 /\ Bit(y.p.refusedFin) = 1
    BY <2>4, <2>5 DEF Bit
  <2>7. PcbInv(y.p, y.n, f, 0, 0)
    BY <2>3, <2>4, <2>5 DEF ConnInv, PcbInv
  <2>8. CountInv(y, a, o, u, s, f, 0, 0)
    <3>1. CountInv(x, a, o, u, s, f, 0, 1)
      BY <1>3 DEF ConnInv
    <3>2. Due(a, o, u) \in 0 .. 1
      BY BitType
    <3>3. ASSUME x.p.owned
          PROVE  y.p.unread = y.p.refused + Bit(y.p.refusedFin) + DataIn(y.n.recvmbox)
                                + Due(a, o, u) + 0 + 0
      <4>1. x.p.unread = x.p.refused + 0 + DataIn(x.n.recvmbox) + Due(a, o, u) + 0 + 1
        BY <2>5, <2>6, <3>1, <3>3 DEF CountInv
      <4>2. /\ x.p.unread \in Nat /\ x.p.refused \in 0 .. 1 /\ DataIn(x.n.recvmbox) \in Nat
            /\ y.p.unread = x.p.unread /\ y.p.refused = x.p.refused /\ y.n = x.n
        BY <2>2, <2>3, <2>4, Parts
      <4> QED
        BY <2>6, <3>2, <4>1, <4>2
    <3> QED
      BY <2>3, <2>4, <3>1, <3>3 DEF CountInv
  <2>9. a \in Early => x.n.recvmbox # <<>>
    BY <1>3 DEF ConnInv, EarlyInv
  <2> QED
    BY <2>1, <2>3, <2>4, <2>7, <2>8, <2>9 DEF ConnInv, EarlyInv
<1> QED
  BY <1>1, <1>2, <1>3

\* tcp_process_refused_data(): what was refused is as a segment just received.
LEMMA RetryKeeps ==
  ASSUME NEW x, NEW a \in Roles, NEW o \in 0 .. 1, NEW u \in 0 .. 1,
         NEW s \in Nat, NEW f \in 0 .. 1,
         ConnInv(x, a, o, u, s, f, 0, 0)
  PROVE  /\ ConnInv(Retry(x), a, o, u, s, f, 0, 0)
         /\ Retry(x).p.state = x.p.state /\ Retry(x).lost = x.lost
<1> DEFINE y == [x EXCEPT !.p.refused = 0, !.p.refusedFin = FALSE]
           g == Bit(x.p.refusedFin)
<1>1. Retry(x) = IF x.p.refused = 0 \/ ~Recv(y, "data").ok THEN x
                 ELSE IF x.p.refusedFin THEN TellFin(Recv(y, "data").x) ELSE Recv(y, "data").x
  BY DEF Retry
<1>2. x \in ConnType
  BY DEF ConnInv
<1>3. CASE x.p.refused = 0 \/ ~Recv(y, "data").ok
  BY <1>1, <1>3
<1>4. CASE x.p.refused # 0 /\ Recv(y, "data").ok
  <2>1. /\ x.p.refused = 1 /\ ~x.p.rxClosed /\ x.p.owned /\ x.p.state \in {"est", "closewait"}
        /\ x.n.valid
    <3>1. x.p.refused = 1
      BY <1>2, <1>4, Parts
    <3>2. ~x.p.rxClosed
      BY <1>4 DEF ConnInv, PcbInv
    <3> QED
      BY <1>2, <1>4, <3>1, <3>2, Parts, Blank DEF ConnInv, PcbInv
  <2>2. /\ y \in ConnType /\ y.n = x.n /\ y.b = x.b /\ y.lost = x.lost
        /\ y.p = [x.p EXCEPT !.refused = 0, !.refusedFin = FALSE] /\ y.p \in PcbType
    <3>1. [x.p EXCEPT !.refused = 0, !.refusedFin = FALSE] \in PcbType
      BY <1>2, Parts, Values DEF PcbType
    <3> QED
      BY <1>2, <3>1 DEF ConnType
  <2> HIDE DEF y
  <2>3. /\ y.p.state = x.p.state /\ y.p.owned = x.p.owned /\ y.p.rxClosed = x.p.rxClosed
        /\ y.p.closePend = x.p.closePend /\ y.p.refused = 0
        /\ ~y.p.refusedFin /\ y.p.unread = x.p.unread
    BY <1>2, <2>2, Parts DEF PcbType
  <2>4. g \in 0 .. 1 /\ (g = 1 <=> x.p.refusedFin) /\ g <= f /\ Bit(y.p.refusedFin) = 0
    BY <2>1, <2>3 DEF ConnInv, PcbInv, Bit
  <2>5. CountInv(y, a, o, u, s, f, 1, g)
    <3>1. /\ x.b = x.p.refused + DataIn(x.n.recvmbox) + u + 0
          /\ x.b <= s /\ x.p.unread <= s + f
          /\ x.p.unread = x.p.refused + g + DataIn(x.n.recvmbox) + Due(a, o, u) + 0 + 0
      BY <2>1 DEF ConnInv, CountInv
    <3>2. /\ x.p.unread \in Nat /\ x.p.refused \in 0 .. 1 /\ DataIn(x.n.recvmbox) \in Nat
          /\ y.p.unread = x.p.unread /\ y.n = x.n /\ y.b = x.b /\ Due(a, o, u) \in 0 .. 1
      BY <1>2, <2>2, <2>3, Parts, BitType
    <3> HIDE DEF g
    <3>3. /\ y.b = y.p.refused + DataIn(y.n.recvmbox) + u + 1
          /\ y.p.unread = y.p.refused + Bit(y.p.refusedFin) + DataIn(y.n.recvmbox)
                            + Due(a, o, u) + 1 + g
      BY <2>1, <2>3, <2>4, <3>1, <3>2
    <3> QED
      BY <3>1, <3>2, <3>3 DEF CountInv
  <2> HIDE DEF g
  <2>6. ConnInv(y, a, o, u, s, f, 1, g)
    <3>1. PcbInv(y.p, y.n, f, 1, g)
      BY <2>1, <2>2, <2>3, <2>4 DEF ConnInv, PcbInv
    <3>2. NetconnInv(y.n, a, o)
      BY <2>2 DEF ConnInv
    <3>3. EarlyInv(y, a, s, f, 1, g)
      BY <2>1, <2>2, <2>3 DEF EarlyInv
    <3> QED
      BY <2>2, <2>5, <3>1, <3>2, <3>3 DEF ConnInv
  <2>7. Recv(y, "data").x = TellData(y, 1)
    BY <1>4, <2>1, <2>3 DEF TellData
  <2>8. /\ ConnInv(TellData(y, 1), a, o, u, s, f, 0, g)
        /\ TellData(y, 1).p.state = x.p.state
    <3>1. y.p.state \notin {"free", "syn"} /\ g \in 0 .. 1 /\ 1 \in 0 .. 1
      BY <2>1, <2>3, <2>4
    <3>2. ConnInv(TellData(y, 1), a, o, u, s, f, 0, g)
      <4>1. Fits(y, a, o, u, s, f, 1, g) /\ Alive(y)
        BY <2>6, <3>1 DEF Fits, Alive
      <4> QED
        BY <4>1, TellDataKeeps DEF Fits
    <3>3. TellData(y, 1).p.state = y.p.state
      BY <1>4, <2>1, <2>2, <2>3 DEF TellData, Recv, ConnType
    <3> QED
      BY <2>3, <3>2, <3>3
  <2>9. TellData(y, 1).lost = x.lost
    BY <1>2, <1>4, <2>1, <2>2, <2>3 DEF TellData, Recv, ConnType
  <2>10. CASE x.p.refusedFin
    <3>1. Retry(x) = TellFin(TellData(y, 1))
      BY <1>1, <1>4, <2>7, <2>10
    <3>2. ConnInv(TellData(y, 1), a, o, u, s, f, 0, 1)
      BY <2>4, <2>8, <2>10
    <3> QED
      BY <2>1, <2>8, <2>9, <3>1, <3>2, TellFinKeeps
  <2>11. CASE ~x.p.refusedFin
    BY <1>1, <1>4, <2>4, <2>7, <2>8, <2>9, <2>11
  <2> QED
    BY <2>10, <2>11
<1> QED
  BY <1>3, <1>4

\* tcp_process(): a pcb in TIME_WAIT has left the active ones, all else as before.
LEMMA TimeWaitIs ==
  ASSUME NEW p \in PcbType
  PROVE  /\ TimeWait(p) \in PcbType /\ TimeWait(p).state = "timewait"
         /\ TimeWait(p).owned = p.owned /\ TimeWait(p).rxClosed = p.rxClosed
         /\ TimeWait(p).refused = 0 /\ TimeWait(p).unread = 0
         /\ ~TimeWait(p).closePend /\ ~TimeWait(p).refusedFin
<1>1. TimeWait(p) \in PcbType
  BY Blank, Values DEF TimeWait, PcbType
<1> QED
  BY <1>1 DEF TimeWait, NoPcb, PcbType

\* y is what tcp_close() leaves of x.
Torn(x, y) ==
  /\ y \in ConnType /\ y.n = x.n /\ y.lost = x.lost
  /\ y.b = x.b - x.p.refused /\ y.p.refused = 0 /\ y.p.unread <= x.p.unread
  /\ ~y.p.owned /\ y.p.state # "syn"
  /\ \/ y.p = NoPcb
     \/ y.p.state # "free" /\ y.p.rxClosed
  /\ y.p.state \in {"closewait", "lastack"} => x.p.state \in {"closewait", "lastack"}
  /\ x.p.state = "lastack" => y.p.state = "lastack"

\* tcp_close() of a pcb without its callbacks.
LEMMA CloseIs ==
  ASSUME NEW x \in ConnType, ~x.p.owned, x.p.state \notin {"free", "syn"},
         x.p.state \notin {"est", "closewait"} => x.p.rxClosed,
         x.p.rxClosed => x.p.refused = 0, x.b - x.p.refused \in Nat
  PROVE  \A r \in Close(x) :
           /\ Torn(x, r.x)
           /\ r.ok => r.x.p.state \notin {"est", "closewait"}
           /\ ~r.ok => r.x.p.state \in {"est", "closewait"}
<1> DEFINE y == [x EXCEPT !.p.rxClosed = TRUE]
           q == IF x.p.state = "est" THEN TimeWait(y.p) ELSE NoPcb
           z == [y EXCEPT !.p = q, !.b = x.b - x.p.refused]
           next == IF x.p.state = "closewait" THEN "lastack" ELSE "finwait1"
           done == [y EXCEPT !.p.state = next]
           pend == [y EXCEPT !.p.closePend = TRUE]
<1>1. /\ x.p \in PcbType /\ x.n \in NetconnType /\ x.b \in Nat
      /\ x.p.unread \in Nat /\ x.p.refused \in 0 .. 1
  BY Parts
<1>2. /\ y \in ConnType /\ y.n = x.n /\ y.b = x.b /\ y.lost = x.lost
      /\ y.p = [x.p EXCEPT !.rxClosed = TRUE] /\ y.p \in PcbType
  <2>1. [x.p EXCEPT !.rxClosed = TRUE] \in PcbType
    BY <1>1 DEF PcbType
  <2> QED
    BY <1>1, <2>1 DEF ConnType
<1>3. /\ y.p.state = x.p.state /\ ~y.p.owned /\ y.p.rxClosed
      /\ y.p.refused = x.p.refused /\ y.p.unread = x.p.unread
  BY <1>1, <1>2 DEF PcbType
<1>4. Close(x) = IF x.p.state \in {"est", "closewait"} /\ (x.p.refused > 0 \/ x.p.unread > 0)
                 THEN {[ok |-> TRUE, x |-> z]} ELSE SendFin(y)
  BY <1>2, <1>3 DEF Close, ConnType
<1>5. SendFin(y) = IF x.p.state \in {"est", "closewait"}
                   THEN {[ok |-> TRUE, x |-> done], [ok |-> FALSE, x |-> pend]}
                   ELSE {[ok |-> TRUE, x |-> y]}
  BY <1>3 DEF SendFin
<1> HIDE DEF y
<1>6. CASE x.p.state \in {"est", "closewait"} /\ (x.p.refused > 0 \/ x.p.unread > 0)
  <2>1. /\ q \in PcbType /\ q.refused = 0 /\ q.unread = 0 /\ ~q.owned
        /\ q.state \in {"timewait", "free"}
        /\ \/ q = NoPcb
           \/ q.state # "free" /\ q.rxClosed
    <3>1. CASE x.p.state = "est"
      <4>1. q = TimeWait(y.p)
        BY <3>1
      <4> HIDE DEF q
      <4> QED
        BY <1>2, <1>3, <4>1, TimeWaitIs
    <3>2. CASE x.p.state # "est"
      BY <3>2, Blank
    <3> QED
      BY <3>1, <3>2
  <2> HIDE DEF q
  <2>2. /\ z \in ConnType /\ z.p = q /\ z.n = x.n /\ z.b = x.b - x.p.refused /\ z.lost = x.lost
    BY <1>2, <2>1 DEF ConnType
  <2> HIDE DEF z
  <2>3. ASSUME NEW r \in Close(x)
        PROVE  r.ok /\ r.x = z
    BY <1>4, <1>6
  <2>4. Torn(x, z)
    BY <1>1, <1>6, <2>1, <2>2 DEF Torn
  <2> QED
    BY <2>1, <2>2, <2>3, <2>4
<1>7. CASE x.p.state \in {"est", "closewait"} /\ x.p.refused = 0 /\ x.p.unread = 0
  <2>1. Close(x) = {[ok |-> TRUE, x |-> done], [ok |-> FALSE, x |-> pend]}
    BY <1>4, <1>5, <1>7
  <2>2. /\ done \in ConnType /\ done.n = x.n /\ done.b = x.b /\ done.lost = x.lost
        /\ done.p = [y.p EXCEPT !.state = next]
    <3>1. [y.p EXCEPT !.state = next] \in PcbType
      BY <1>2, Values DEF PcbType
    <3> QED
      BY <1>2, <3>1 DEF ConnType
  <2>3. /\ done.p.state = next /\ ~done.p.owned /\ done.p.rxClosed
        /\ done.p.refused = x.p.refused /\ done.p.unread = x.p.unread
    <3> HIDE DEF done, next
    <3> QED
      BY <1>2, <1>3, <2>2 DEF PcbType
  <2>4. /\ pend \in ConnType /\ pend.n = x.n /\ pend.b = x.b /\ pend.lost = x.lost
        /\ pend.p = [y.p EXCEPT !.closePend = TRUE]
    <3>1. [y.p EXCEPT !.closePend = TRUE] \in PcbType
      BY <1>2 DEF PcbType
    <3> QED
      BY <1>2, <3>1 DEF ConnType
  <2>5. /\ pend.p.state = x.p.state /\ ~pend.p.owned /\ pend.p.rxClosed
        /\ pend.p.refused = x.p.refused /\ pend.p.unread = x.p.unread
    <3> HIDE DEF pend
    <3> QED
      BY <1>2, <1>3, <2>4 DEF PcbType
  <2>6. /\ next \in {"lastack", "finwait1"}
        /\ next = "lastack" => x.p.state = "closewait"
        /\ x.b = x.b - x.p.refused
    BY <1>1, <1>7
  <2> HIDE DEF done, pend, next
  <2>7. ASSUME NEW r \in Close(x)
        PROVE  \/ r.ok /\ r.x = done
               \/ ~r.ok /\ r.x = pend
    BY <2>1
  <2>8. Torn(x, done)
    BY <1>1, <1>7, <2>2, <2>3, <2>6 DEF Torn
  <2>9. Torn(x, pend)
    BY <1>1, <1>7, <2>4, <2>5, <2>6 DEF Torn
  <2> QED
    BY <1>7, <2>3, <2>5, <2>6, <2>7, <2>8, <2>9
<1>8. CASE x.p.state \notin {"est", "closewait"}
  <2>1. Close(x) = {[ok |-> TRUE, x |-> y]}
    BY <1>4, <1>5, <1>8
  <2>2. ASSUME NEW r \in Close(x)
        PROVE  r.ok /\ r.x = y
    BY <2>1
  <2>3. x.p.refused = 0 /\ x.b - x.p.refused = x.b
    BY <1>1, <1>8
  <2>4. Torn(x, y)
    BY <1>1, <1>2, <1>3, <1>8, <2>3 DEF Torn
  <2> QED
    BY <1>3, <1>8, <2>2, <2>4
<1> QED
  BY <1>1, <1>6, <1>7, <1>8

\* A netconn as lwip_netconn_do_close_internal() finds it, its mailbox drained.
PreClose(x, a, u, s, f, d) ==
  /\ x \in ConnType
  /\ x.n.used /\ x.n.pcb /\ x.n.msg /\ x.n.state = "close" /\ x.n.done = 0
  /\ ~x.n.valid /\ x.n.recvmbox = <<>>
  /\ \/ a \in {"close", "delete"} /\ x.n.shut = "rdwr"
     \/ /\ a = "shut" /\ x.n.shut = "rd"
        /\ x.p.state \in {"est", "closewait"} /\ ~x.p.closePend
  /\ x.p.owned /\ x.p.state \notin {"free", "syn"}
  /\ x.p.state \notin {"est", "closewait"} => x.p.rxClosed
  /\ x.p.rxClosed => x.p.refused = 0
  /\ d > 0 => x.p.refused = 0
  /\ x.p.state \in {"closewait", "lastack"} => f = 1
  /\ x.b = x.p.refused + u + d /\ x.b <= s /\ x.p.unread <= s + f

\* The close is done: the netconn has no pcb and the pcb no netconn.
LEMMA ClosedKeeps ==
  ASSUME NEW x, NEW a \in Roles, NEW u \in 0 .. 1, NEW s \in Nat, NEW f \in 0 .. 1,
         NEW d \in 0 .. 1, NEW g \in 0 .. 1, PreClose(x, a, u, s, f, d),
         NEW y, Torn(x, y), a \in {"close", "delete"}, y.p.state \notin {"est", "closewait"}
  PROVE  LET r == [y EXCEPT !.n = [Complete(@) EXCEPT !.pcb = FALSE]]
         IN  ConnInv(r, a, 0, u, s, f, d, g) /\ r.p = y.p /\ r.lost = x.lost
<1> DEFINE n == [Complete(y.n) EXCEPT !.pcb = FALSE]
           r == [y EXCEPT !.n = n]
<1>1. x \in ConnType /\ x.n \in NetconnType
  BY Parts DEF PreClose
<1>2. /\ n \in NetconnType /\ n.used /\ ~n.pcb /\ ~n.valid /\ n.recvmbox = <<>>
      /\ ~n.msg /\ n.state = "none" /\ n.done = 1
  <2>1. /\ Complete(x.n) \in NetconnType /\ Complete(x.n).used /\ ~Complete(x.n).valid
        /\ Complete(x.n).recvmbox = <<>>
        /\ ~Complete(x.n).msg /\ Complete(x.n).state = "none" /\ Complete(x.n).done = 1
    BY <1>1, CompleteIs DEF PreClose
  <2>2. n = [Complete(x.n) EXCEPT !.pcb = FALSE]
    BY DEF Torn
  <2> HIDE DEF n
  <2> QED
    BY <2>1, <2>2 DEF NetconnType
<1> HIDE DEF n
<1>3. /\ r \in ConnType /\ r.n = n /\ r.p = y.p /\ r.b = x.b - x.p.refused /\ r.lost = x.lost
  BY <1>2 DEF ConnType, Torn
<1> HIDE DEF r
<1>4. NetconnInv(r.n, a, 0)
  <2>1. n # NoNetconn
    BY <1>2, Blank
  <2>2. Len(n.recvmbox) <= RecvSize
    BY <1>2, DataInEmpty, Sizes
  <2> QED
    BY <1>2, <1>3, <2>1, <2>2 DEF NetconnInv, Early, Asking
<1>5. PcbInv(r.p, r.n, f, d, g)
  <2>1. CASE y.p = NoPcb
    BY <1>2, <1>3, <2>1, Blank DEF PcbInv
  <2>2. CASE y.p.state # "free" /\ y.p.rxClosed
    BY <1>2, <1>3, <2>2 DEF PcbInv, Torn, PreClose
  <2> QED
    BY <2>1, <2>2 DEF Torn
<1>6. CountInv(r, a, 0, u, s, f, d, g)
  <2>1. x.b = x.p.refused + u + d /\ x.b <= s /\ x.p.unread <= s + f
    BY DEF PreClose
  <2>2. y.p.refused = 0 /\ y.p.unread <= x.p.unread /\ ~y.p.owned /\ y \in ConnType
    BY DEF Torn
  <2>3. DataIn(r.n.recvmbox) = 0
    BY <1>2, <1>3, DataInEmpty
  <2>4. /\ x.p.refused \in 0 .. 1 /\ x.b \in Nat /\ x.p.unread \in Nat /\ y.p.unread \in Nat
    BY <1>1, <2>2, Parts
  <2>5. r.b = r.p.refused + DataIn(r.n.recvmbox) + u + d /\ r.b <= s
    BY <1>3, <2>1, <2>2, <2>3, <2>4
  <2>6. r.p.unread <= s + f
    <3>1. y.p.unread <= s + f
      BY <2>1, <2>2, <2>4
    <3> QED
      BY <1>3, <3>1
  <2> QED
    BY <1>3, <2>2, <2>5, <2>6 DEF CountInv
<1>7. EarlyInv(r, a, s, f, d, g)
  BY DEF EarlyInv, Early
<1>8. ConnInv(r, a, 0, u, s, f, d, g)
  BY <1>3, <1>4, <1>5, <1>6, <1>7 DEF ConnInv
<1> QED
  BY <1>3, <1>8 DEF r, n

\* do_close_internal(): a close that ends, goes on or waits for its FIN.
LEMMA CloseInternalKeeps ==
  ASSUME NEW x, NEW a \in Roles, NEW u \in 0 .. 1, NEW s \in Nat, NEW f \in 0 .. 1,
         NEW d \in 0 .. 1, NEW g \in 0 .. 1, PreClose(x, a, u, s, f, d)
  PROVE  \A y \in CloseInternal(x) :
           /\ ConnInv(y, a, 0, u, s, f, d, g) /\ y.lost = x.lost /\ y.p.state # "syn"
           /\ x.p.state = "lastack" => y.p.state \in {"lastack", "free"}
<1>1. x \in ConnType /\ x.p \in PcbType /\ x.n \in NetconnType
  BY Parts DEF PreClose
<1>2. CASE x.n.shut = "rd"
  <2> DEFINE q == [x.p EXCEPT !.rxClosed = TRUE, !.refused = 0]
             r == [x EXCEPT !.p = q, !.b = x.b - x.p.refused, !.n = Complete(x.n)]
  <2>0. a = "shut" /\ x.p.state \in {"est", "closewait"}
    BY <1>2 DEF PreClose
  <2>1. CloseInternal(x) = {r}
    BY <1>1, <1>2, <2>0 DEF CloseInternal, ShutRx, ConnType
  <2>2. /\ Complete(x.n) \in NetconnType /\ Complete(x.n).used /\ ~Complete(x.n).valid
        /\ Complete(x.n).pcb /\ Complete(x.n).recvmbox = <<>>
        /\ ~Complete(x.n).msg /\ Complete(x.n).state = "none" /\ Complete(x.n).done = 1
    BY <1>1, CompleteIs DEF PreClose
  <2>3. q \in PcbType
    BY <1>1, Values DEF PcbType
  <2>4. /\ q.state = x.p.state /\ q.owned /\ q.rxClosed /\ q.refused = 0
        /\ q.unread = x.p.unread /\ q.closePend = x.p.closePend
    <3>1. x.p.owned
      BY DEF PreClose
    <3> QED
      BY <1>1, <3>1 DEF PcbType
  <2>5. /\ x.b - x.p.refused \in Nat
        /\ x.b - x.p.refused = u + d /\ x.b - x.p.refused <= s
    BY <1>1, Parts DEF PreClose
  <2> HIDE DEF q
  <2>6. /\ r \in ConnType /\ r.p = q /\ r.n = Complete(x.n) /\ r.b = u + d /\ r.b <= s
        /\ r.lost = x.lost
    BY <1>1, <2>2, <2>3, <2>5 DEF ConnType
  <2> HIDE DEF r
  <2>7. NetconnInv(r.n, a, 0)
    <3>1. Len(r.n.recvmbox) <= RecvSize /\ r.n # NoNetconn
      BY <2>2, <2>6, Blank, DataInEmpty, Sizes
    <3> QED
      BY <2>0, <2>2, <2>6, <3>1 DEF NetconnInv, Early, Asking
  <2>8. PcbInv(r.p, r.n, f, d, g)
    <3>1. ~x.p.closePend /\ (x.p.state = "closewait" => f = 1)
      BY <1>2 DEF PreClose
    <3> QED
      BY <2>0, <2>2, <2>4, <2>6, <3>1 DEF PcbInv, Active
  <2>9. CountInv(r, a, 0, u, s, f, d, g)
    <3>1. DataIn(r.n.recvmbox) = 0 /\ 0 + 0 + u + d = u + d
      BY <2>2, <2>6, DataInEmpty
    <3>2. r.p.unread <= s + f
      BY <2>4, <2>6 DEF PreClose
    <3>3. r.p.refused = 0 /\ r.p.rxClosed
      BY <2>4, <2>6
    <3> QED
      BY <2>6, <3>1, <3>2, <3>3 DEF CountInv
  <2>10. EarlyInv(r, a, s, f, d, g)
    BY <2>0 DEF EarlyInv, Early
  <2> QED
    BY <2>0, <2>1, <2>4, <2>6, <2>7, <2>8, <2>9, <2>10 DEF ConnInv
<1>3. CASE x.n.shut = "rdwr"
  <2> DEFINE free == [x EXCEPT !.p.owned = FALSE]
  <2>1. a \in {"close", "delete"}
    BY <1>3 DEF PreClose
  <2>2. /\ free \in ConnType /\ free.n = x.n /\ free.b = x.b /\ free.lost = x.lost
        /\ free.p = [x.p EXCEPT !.owned = FALSE]
    <3>1. [x.p EXCEPT !.owned = FALSE] \in PcbType
      BY <1>1 DEF PcbType
    <3> QED
      BY <1>1, <3>1 DEF ConnType
  <2> DEFINE Gone(y) == [y EXCEPT !.n = [Complete(@) EXCEPT !.pcb = FALSE]]
             Result(r) == IF r.ok THEN Gone(r.x)
                          ELSE IF x.n.polls = 0 THEN Gone(Removed(r.x))
                          ELSE [r.x EXCEPT !.p.owned = TRUE]
  <2> HIDE DEF free
  <2>3. /\ free.p.state = x.p.state /\ ~free.p.owned /\ free.p.rxClosed = x.p.rxClosed
        /\ free.p.refused = x.p.refused /\ free.p.unread = x.p.unread
    BY <1>1, <2>2 DEF PcbType
  <2>4. ASSUME NEW r \in Close(free)
        PROVE  /\ Torn(x, r.x)
               /\ r.ok => r.x.p.state \notin {"est", "closewait"}
               /\ ~r.ok => r.x.p.state \in {"est", "closewait"}
    <3>1. free.b - free.p.refused \in Nat
      BY <2>2, <2>3, Parts DEF PreClose
    <3>2. /\ free \in ConnType /\ ~free.p.owned /\ free.p.state \notin {"free", "syn"}
          /\ free.p.state \notin {"est", "closewait"} => free.p.rxClosed
          /\ free.p.rxClosed => free.p.refused = 0
      BY <2>2, <2>3 DEF PreClose
    <3>3. /\ Torn(free, r.x)
          /\ r.ok => r.x.p.state \notin {"est", "closewait"}
          /\ ~r.ok => r.x.p.state \in {"est", "closewait"}
      BY <2>4, <3>1, <3>2, CloseIs
    <3> QED
      BY <2>2, <2>3, <3>3 DEF Torn
  <2>5. ASSUME NEW y, Torn(x, y), y.p.state \in {"est", "closewait"}
        PROVE  Torn(x, Removed(y)) /\ Removed(y).p = NoPcb /\ x.p.state # "lastack"
    <3>1. Removed(y) = [y EXCEPT !.p = NoPcb, !.b = y.b - 0]
      BY <2>5 DEF Removed, Torn, ConnType
    <3>2. /\ Removed(y) \in ConnType /\ Removed(y).p = NoPcb /\ Removed(y).n = x.n
          /\ Removed(y).b = y.b /\ Removed(y).lost = x.lost
      <4>1. y \in ConnType /\ y.b \in Nat /\ y.b - 0 = y.b /\ y.n = x.n /\ y.lost = x.lost
        BY <2>5, Parts DEF Torn
      <4> QED
        BY <3>1, <4>1, Blank DEF ConnType
    <3>3. x.p.state # "lastack"
      BY <2>5 DEF Torn
    <3>4. 0 <= x.p.unread
      BY <1>1, Parts
    <3> QED
      BY <2>5, <3>2, <3>3, <3>4, Blank DEF Torn
  <2>6. ASSUME NEW y, Torn(x, y), y.p.state \notin {"est", "closewait"}
        PROVE  /\ ConnInv(Gone(y), a, 0, u, s, f, d, g) /\ Gone(y).lost = x.lost
               /\ Gone(y).p.state # "syn"
               /\ x.p.state = "lastack" => Gone(y).p.state \in {"lastack", "free"}
    <3>1. ConnInv(Gone(y), a, 0, u, s, f, d, g) /\ Gone(y).p = y.p /\ Gone(y).lost = x.lost
      BY <2>1, <2>6, ClosedKeeps
    <3> QED
      BY <2>6, <3>1 DEF Torn
  <2>7. ASSUME NEW y, Torn(x, y), y.p.state \in {"est", "closewait"}
        PROVE  LET z == [y EXCEPT !.p.owned = TRUE] IN
               /\ ConnInv(z, a, 0, u, s, f, d, g) /\ z.lost = x.lost
               /\ z.p.state # "syn"
               /\ x.p.state = "lastack" => z.p.state \in {"lastack", "free"}
    <3> DEFINE z == [y EXCEPT !.p.owned = TRUE]
    <3>1. y \in ConnType /\ y.p \in PcbType /\ y.n = x.n /\ y.lost = x.lost
      BY <2>7, Parts DEF Torn
    <3>2. /\ z \in ConnType /\ z.n = x.n /\ z.b = y.b /\ z.lost = x.lost
          /\ z.p = [y.p EXCEPT !.owned = TRUE] /\ z.p \in PcbType
      <4>1. [y.p EXCEPT !.owned = TRUE] \in PcbType
        BY <3>1 DEF PcbType
      <4> QED
        BY <3>1, <4>1 DEF ConnType
    <3> HIDE DEF z
    <3>3. /\ z.p.owned /\ z.p.state = y.p.state /\ z.p.rxClosed = y.p.rxClosed
          /\ z.p.refused = y.p.refused /\ z.p.unread = y.p.unread
      BY <3>1, <3>2 DEF PcbType
    <3>4. /\ y.p.rxClosed /\ y.p.refused = 0 /\ y.p.unread <= x.p.unread
          /\ y.b = x.b - x.p.refused /\ x.p.state # "lastack"
          /\ y.p.state \in {"closewait", "lastack"} => x.p.state \in {"closewait", "lastack"}
      BY <2>7, Blank DEF Torn
    <3>5. NetconnInv(z.n, a, 0)
      <4>1. Len(x.n.recvmbox) <= RecvSize /\ x.n # NoNetconn
        BY Blank, DataInEmpty, Sizes DEF PreClose
      <4> QED
        BY <1>3, <2>1, <3>2, <4>1 DEF PreClose, NetconnInv, Early, Asking
    <3>6. PcbInv(z.p, z.n, f, d, g)
      <4>1. y.p.state \in {"closewait", "lastack"} => f = 1
        BY <3>4 DEF PreClose
      <4>2. x.n.pcb /\ x.n.state = "close" /\ ~x.n.valid
        BY DEF PreClose
      <4> QED
        BY <2>7, <3>2, <3>3, <3>4, <4>1, <4>2 DEF PcbInv, Active
    <3>7. CountInv(z, a, 0, u, s, f, d, g)
      <4>1. x.b = x.p.refused + u + d /\ x.b <= s /\ x.p.unread <= s + f
        BY DEF PreClose
      <4>2. DataIn(z.n.recvmbox) = 0
        BY <3>2, DataInEmpty DEF PreClose
      <4>3. /\ x.p.refused \in 0 .. 1 /\ x.b \in Nat /\ x.p.unread \in Nat
            /\ y.p.unread \in Nat
        BY <1>1, <3>1, Parts
      <4>4. z.b = z.p.refused + DataIn(z.n.recvmbox) + u + d /\ z.b <= s
        BY <3>2, <3>3, <3>4, <4>1, <4>2, <4>3
      <4>5. z.p.unread <= s + f
        <5>1. y.p.unread <= s + f
          BY <3>4, <4>1, <4>3
        <5> QED
          BY <3>3, <5>1
      <4> QED
        BY <3>3, <3>4, <4>4, <4>5 DEF CountInv
    <3>8. EarlyInv(z, a, s, f, d, g)
      BY <2>1 DEF EarlyInv, Early
    <3>9. /\ ConnInv(z, a, 0, u, s, f, d, g) /\ z.lost = x.lost
          /\ z.p.state # "syn" /\ x.p.state # "lastack"
      BY <2>7, <3>2, <3>3, <3>4, <3>5, <3>6, <3>7, <3>8 DEF ConnInv
    <3> QED
      BY <3>9 DEF z
  <2>8. CloseInternal(x) = {Result(r) : r \in Close(free)}
    BY <1>3 DEF CloseInternal, free
  <2> HIDE DEF Gone
  <2>9. ASSUME NEW r \in Close(free)
        PROVE  /\ ConnInv(Result(r), a, 0, u, s, f, d, g) /\ Result(r).lost = x.lost
               /\ Result(r).p.state # "syn"
               /\ x.p.state = "lastack" => Result(r).p.state \in {"lastack", "free"}
    <3>1. CASE r.ok
      BY <2>4, <2>6, <3>1
    <3>2. CASE ~r.ok /\ x.n.polls = 0
      <4>1. /\ Torn(x, Removed(r.x)) /\ Removed(r.x).p = NoPcb /\ x.p.state # "lastack"
        BY <2>4, <2>5, <3>2
      <4>2. Removed(r.x).p.state \notin {"est", "closewait"}
        BY <4>1, Blank
      <4>3. Result(r) = Gone(Removed(r.x))
        BY <3>2
      <4>4. /\ ConnInv(Gone(Removed(r.x)), a, 0, u, s, f, d, g)
            /\ Gone(Removed(r.x)).lost = x.lost
            /\ Gone(Removed(r.x)).p.state # "syn"
        BY <2>6, <4>1, <4>2
      <4> HIDE DEF Result
      <4> QED
        BY <4>1, <4>3, <4>4
    <3>3. CASE ~r.ok /\ x.n.polls # 0
      BY <2>4, <2>7, <3>3
    <3> QED
      BY <3>1, <3>2, <3>3
  <2> QED
    BY <2>8, <2>9
<1> QED
  BY <1>2, <1>3 DEF PreClose

\* lwip_netconn_do_writemore(): what is in flight and still to be written is
\* nobody else's business.
LEMMA WriteMoreKeeps ==
  ASSUME NEW x, NEW a \in Roles, NEW o \in 0 .. 1, NEW u \in 0 .. 1,
         NEW s \in Nat, NEW f \in 0 .. 1, NEW d \in 0 .. 1, NEW g \in 0 .. 1,
         ConnInv(x, a, o, u, s, f, d, g), x.n.state = "write"
  PROVE  \A y \in WriteMore(x) :
           /\ ConnInv(y, a, o, u, s, f, d, g) /\ y.lost = x.lost
           /\ y.p.state = x.p.state
<1> DEFINE room == SndBuf - x.p.inflight
           len  == IF room < x.n.left THEN room ELSE x.n.left
           q    == [x.p EXCEPT !.inflight = x.p.inflight + len]
           m    == [x.n EXCEPT !.left = x.n.left - len]
           y    == [x EXCEPT !.p = q, !.n = m]
           z    == [x EXCEPT !.p = q, !.n = Complete(m)]
           w    == [x EXCEPT !.p = x.p, !.n = Complete(x.n)]
<1>1. x \in ConnType /\ x.p \in PcbType /\ x.n \in NetconnType
  BY Parts DEF ConnInv
<1>2. /\ a = "write" /\ o = 0 /\ x.n.msg /\ x.n.pcb /\ x.n.done = 0 /\ x.n.used /\ x.n.valid
  BY DEF ConnInv, NetconnInv, Roles, Early, Asking
<1>3. x.p.owned /\ x.p.state \in {"est", "closewait"}
  BY <1>2 DEF ConnInv, PcbInv
<1>4. ~x.p.closePend
  BY <1>3 DEF ConnInv, PcbInv
<1>5. /\ x.p.inflight + len \in Inflight /\ x.n.left - len \in Lengths
      /\ x.n.left - len \in Nat
  <2>1. x.p.inflight \in 0 .. SndBuf /\ x.n.left \in 0 .. BodyLen + 1
    BY <1>1 DEF PcbType, NetconnType, Inflight, Lengths
  <2> QED
    BY <2>1, Sizes DEF Inflight, Lengths
<1>6. \A r \in WriteMore(x) : r = x \/ r = y \/ r = z \/ r = w
  BY <1>1, ZenonT(60) DEF WriteMore, ConnType
<1> HIDE DEF len, room
<1>7. q \in PcbType /\ m \in NetconnType
  BY <1>1, <1>5 DEF PcbType, NetconnType
<1>8. /\ q.state = x.p.state /\ q.owned = x.p.owned /\ q.rxClosed = x.p.rxClosed
      /\ q.closePend = x.p.closePend /\ q.refused = x.p.refused
      /\ q.refusedFin = x.p.refusedFin /\ q.unread = x.p.unread
  BY <1>1 DEF PcbType
<1>9. /\ m.used = x.n.used /\ m.pcb = x.n.pcb /\ m.state = x.n.state /\ m.valid = x.n.valid
      /\ m.recvmbox = x.n.recvmbox /\ m.msg = x.n.msg /\ m.done = x.n.done
      /\ m.shut = x.n.shut
  BY <1>1 DEF NetconnType
<1> HIDE DEF q, m
<1>10. ASSUME NEW k \in {q, x.p}
       PROVE  /\ k \in PcbType
              /\ k.state = x.p.state /\ k.owned = x.p.owned /\ k.rxClosed = x.p.rxClosed
              /\ k.closePend = x.p.closePend /\ k.refused = x.p.refused
              /\ k.refusedFin = x.p.refusedFin /\ k.unread = x.p.unread
  BY <1>1, <1>7, <1>8
<1>11. ASSUME NEW k \in {q, x.p}, NEW n, n \in NetconnType, n.used = x.n.used, n.pcb = x.n.pcb,
              n.valid = x.n.valid, n.recvmbox = x.n.recvmbox,
              \/ n.state = "write" /\ n.msg /\ n.done = 0
              \/ n.state = "none" /\ ~n.msg /\ n.done = 1
       PROVE  LET r == [x EXCEPT !.p = k, !.n = n] IN
              /\ ConnInv(r, a, o, u, s, f, d, g) /\ r.lost = x.lost
              /\ r.p.state = x.p.state
  <2> DEFINE r == [x EXCEPT !.p = k, !.n = n]
  <2>1. /\ r \in ConnType /\ r.p = k /\ r.n = n /\ r.b = x.b /\ r.lost = x.lost
    BY <1>1, <1>11, <1>10 DEF ConnType
  <2> HIDE DEF r
  <2>2. NetconnInv(n, a, o)
    <3>1. n # NoNetconn /\ Len(n.recvmbox) <= RecvSize
      BY <1>2, <1>11, Blank DEF ConnInv, NetconnInv
    <3> QED
      BY <1>2, <1>11, <3>1 DEF ConnInv, NetconnInv, Early, Asking
  <2>3. PcbInv(k, n, f, d, g)
    <3>1. /\ x.p.owned => (x.p.rxClosed <=> ~x.n.valid)
          /\ x.p.rxClosed => x.p.refused = 0
          /\ ~x.p.rxClosed /\ x.p.refusedFin => x.p.refused = 1 /\ f = 1 /\ g = 0
          /\ d > 0 => x.p.refused = 0
          /\ x.p.state \in {"closewait", "lastack"} => f = 1
      BY DEF ConnInv, PcbInv
    <3> QED
      BY <1>2, <1>3, <1>4, <1>10, <1>11, <3>1 DEF PcbInv, Active
  <2>4. CountInv(r, a, o, u, s, f, d, g)
    BY <1>10, <1>11, <2>1 DEF ConnInv, CountInv
  <2>5. EarlyInv(r, a, s, f, d, g)
    BY <1>2 DEF EarlyInv, Early
  <2> QED
    BY <1>10, <2>1, <2>2, <2>3, <2>4, <2>5 DEF ConnInv, r
<1>12. /\ ConnInv(y, a, o, u, s, f, d, g) /\ y.lost = x.lost /\ y.p.state = x.p.state
  BY <1>2, <1>7, <1>9, <1>11
<1>13. /\ ConnInv(z, a, o, u, s, f, d, g) /\ z.lost = x.lost /\ z.p.state = x.p.state
  <2>1. /\ Complete(m) \in NetconnType /\ Complete(m).used = x.n.used /\ Complete(m).pcb = x.n.pcb
        /\ Complete(m).valid = x.n.valid /\ Complete(m).recvmbox = x.n.recvmbox
        /\ ~Complete(m).msg /\ Complete(m).state = "none" /\ Complete(m).done = 1
    BY <1>7, <1>9, CompleteIs
  <2> QED
    BY <1>11, <2>1
<1>14. /\ ConnInv(w, a, o, u, s, f, d, g) /\ w.lost = x.lost /\ w.p.state = x.p.state
  <2>1. /\ Complete(x.n) \in NetconnType /\ Complete(x.n).used = x.n.used
        /\ Complete(x.n).pcb = x.n.pcb /\ Complete(x.n).valid = x.n.valid
        /\ Complete(x.n).recvmbox = x.n.recvmbox
        /\ ~Complete(x.n).msg /\ Complete(x.n).state = "none" /\ Complete(x.n).done = 1
    BY <1>1, <1>2, CompleteIs
  <2> QED
    BY <1>11, <2>1
<1> HIDE DEF y, z, w
<1> QED
  BY <1>6, <1>12, <1>13, <1>14

\* A callback that finds the netconn closing tries again.
LEMMA ClosingIsPreClose ==
  ASSUME NEW x, NEW a \in Roles, NEW o \in 0 .. 1, NEW u \in 0 .. 1,
         NEW s \in Nat, NEW f \in 0 .. 1, NEW d \in 0 .. 1, NEW g \in 0 .. 1,
         ConnInv(x, a, o, u, s, f, d, g), x.n.state = "close", x.p.owned
  PROVE  PreClose(x, a, u, s, f, d) /\ o = 0
<1>1. x \in ConnType /\ x.p.state \notin {"free", "syn"}
  BY DEF ConnInv, PcbInv
<1>2. /\ a \in {"close", "delete"} /\ x.n.shut = "rdwr" /\ x.n.msg /\ ~x.n.valid
      /\ x.n.pcb /\ x.n.recvmbox = <<>> /\ x.n.used
  BY DEF ConnInv, NetconnInv
<1>3. o = 0 /\ x.n.done = 0
  BY <1>2 DEF ConnInv, NetconnInv, Asking
<1>4. /\ x.p.rxClosed /\ x.p.refused = 0
      /\ x.p.state \in {"closewait", "lastack"} => f = 1
  BY <1>2 DEF ConnInv, PcbInv
<1>5. DataIn(x.n.recvmbox) = 0
  BY <1>2, DataInEmpty
<1>6. x.b = x.p.refused + u + d /\ x.b <= s /\ x.p.unread <= s + f
  <2>1. x.b = x.p.refused + DataIn(x.n.recvmbox) + u + d /\ x.b <= s /\ x.p.unread <= s + f
    BY DEF ConnInv, CountInv
  <2> QED
    BY <1>4, <1>5, <2>1
<1> QED
  BY <1>1, <1>2, <1>3, <1>4, <1>6 DEF PreClose

\* sent_tcp() and poll_tcp()
LEMMA SentKeeps ==
  ASSUME NEW x, NEW a \in Roles, NEW o \in 0 .. 1, NEW u \in 0 .. 1,
         NEW s \in Nat, NEW f \in 0 .. 1, NEW d \in 0 .. 1, NEW g \in 0 .. 1,
         ConnInv(x, a, o, u, s, f, d, g), x.p.owned
  PROVE  \A y \in Sent(x) :
           /\ ConnInv(y, a, o, u, s, f, d, g) /\ y.lost = x.lost /\ y.p.state # "syn"
           /\ x.p.state = "lastack" => y.p.state \in {"lastack", "free"}
<1>1. x.p.state # "syn"
  BY DEF ConnInv, PcbInv
<1>2. CASE x.n.state = "write"
  BY <1>1, <1>2, WriteMoreKeeps DEF Sent
<1>3. CASE x.n.state = "close"
  <2>1. PreClose(x, a, u, s, f, d) /\ o = 0
    BY <1>3, ClosingIsPreClose
  <2>2. Sent(x) = CloseInternal(x)
    BY <1>3 DEF Sent
  <2> QED
    BY <2>1, <2>2, CloseInternalKeeps
<1>4. CASE x.n.state \notin {"write", "close"}
  BY <1>1, <1>4 DEF Sent
<1> QED
  BY <1>2, <1>3, <1>4

\* poll_tcp(): a close or a write that waits is tried again.
LEMMA PolledKeeps ==
  ASSUME NEW x, NEW a \in Roles, NEW o \in 0 .. 1, NEW u \in 0 .. 1,
         NEW s \in Nat, NEW f \in 0 .. 1,
         ConnInv(x, a, o, u, s, f, 0, 0), x.p.owned
  PROVE  \A y \in Polled(x) :
           ConnInv(y, a, o, u, s, f, 0, 0) /\ y.lost = x.lost /\ y.p.state # "syn"
<1>1. CASE x.n.state # "close"
  BY <1>1, SentKeeps DEF Polled
<1>2. CASE x.n.state = "close"
  <2> DEFINE k == IF x.n.polls = 0 THEN 0 ELSE x.n.polls - 1
             z == [x EXCEPT !.n.polls = k]
  <2>1. Polled(x) = CloseInternal(z)
    BY <1>2 DEF Polled
  <2>2. PreClose(x, a, u, s, f, 0) /\ o = 0
    BY <1>2, ClosingIsPreClose
  <2>3. x \in ConnType /\ x.n \in NetconnType
    BY Parts DEF ConnInv
  <2>4. k \in PollCounts
    <3>1. x.n.polls \in 0 .. PollsLeft
      BY <2>3 DEF NetconnType, PollCounts
    <3> QED
      BY <3>1, Sizes DEF PollCounts
  <2> HIDE DEF k
  <2>5. /\ z \in ConnType /\ z.p = x.p /\ z.b = x.b /\ z.lost = x.lost
        /\ z.n = [x.n EXCEPT !.polls = k]
    <3>1. [x.n EXCEPT !.polls = k] \in NetconnType
      BY <2>3, <2>4 DEF NetconnType
    <3> QED
      BY <2>3, <3>1 DEF ConnType
  <2> HIDE DEF z
  <2>6. /\ z.n.used = x.n.used /\ z.n.pcb = x.n.pcb /\ z.n.msg = x.n.msg
        /\ z.n.state = x.n.state /\ z.n.done = x.n.done /\ z.n.valid = x.n.valid
        /\ z.n.recvmbox = x.n.recvmbox /\ z.n.shut = x.n.shut
    BY <2>3, <2>5 DEF NetconnType
  <2>7. PreClose(z, a, u, s, f, 0)
    BY <2>2, <2>5, <2>6 DEF PreClose
  <2> QED
    BY <2>1, <2>2, <2>5, <2>7, CloseInternalKeeps
<1> QED
  BY <1>1, <1>2

\* A segment with d of data and g FINs is one that may still come, on a
\* connection that can take it.
Takes(x, f, d, g, told) ==
  /\ d \in 0 .. 1 /\ g \in 0 .. 1 /\ told \in BOOLEAN /\ (told <=> g = 1)
  /\ x.p.state \in Active /\ x.p.state # "syn"
  /\ d + g > 0 => f = 0 /\ x.p.refused = 0
Told(x, y) ==
  /\ y.p.state \notin {"free", "syn"} /\ y.p.owned = x.p.owned /\ y.lost = x.lost
  /\ x.p.state = "lastack" => y.p.state = "lastack"

\* tcp_process(): the data and the FIN of a segment are in hand.
LEMMA ProcessedKeeps ==
  ASSUME NEW x, NEW a, NEW o, NEW u, NEW s, NEW f, NEW d, NEW g, NEW told, NEW ack,
         Fits(x, a, o, u, s, f, 0, 0), Takes(x, f, d, g, told)
  PROVE  /\ Fits(Processed(x, d, told, ack), a, o, u, s + d, f + g, d, g)
         /\ Told(x, Processed(x, d, told, ack))
<1> SUFFICES ASSUME a \in Roles, o \in 0 .. 1, u \in 0 .. 1, s \in Nat, f \in 0 .. 1,
                    d \in 0 .. 1, g \in 0 .. 1, told \in BOOLEAN,
                    ConnInv(x, a, o, u, s, f, 0, 0), x.p.state \in Active, x.p.state # "syn",
                    told <=> g = 1, d + g > 0 => f = 0 /\ x.p.refused = 0,
                    NEW t \in Nat, t = s + d, NEW e \in 0 .. 1, e = f + g
             PROVE  /\ ConnInv(Processed(x, d, told, ack), a, o, u, t, e, d, g)
                    /\ Processed(x, d, told, ack).p.state \notin {"free", "syn"}
                    /\ Processed(x, d, told, ack).p.owned = x.p.owned
                    /\ Processed(x, d, told, ack).lost = x.lost
                    /\ x.p.state = "lastack" => Processed(x, d, told, ack).p.state = "lastack"
  <2>1. s + d \in Nat /\ f + g \in 0 .. 1
    BY DEF Fits, Takes
  <2> QED
    BY <2>1 DEF Fits, Takes, Told
<1> DEFINE next == NextState(x.p.state, told, ack = "all")
           fly  == IF ack = "none" THEN x.p.inflight ELSE 0
           q    == [x.p EXCEPT !.state = next, !.unread = x.p.unread + d + (IF told THEN 1 ELSE 0),
                               !.inflight = fly]
           y    == [x EXCEPT !.p = q, !.b = x.b + d]
           z    == [y EXCEPT !.p = TimeWait(q)]
<1>1. x \in ConnType /\ x.p \in PcbType /\ x.n \in NetconnType /\ x.b \in Nat /\ x.p.unread \in Nat
  BY Parts DEF ConnInv
<1>2. Processed(x, d, told, ack) = IF next = "timewait" THEN z ELSE y
  BY <1>1, ZenonT(60) DEF Processed, ConnType
<1>3. (IF told THEN 1 ELSE 0) = g
  OBVIOUS
<1>4. /\ next \in PcbStates /\ next \notin {"free", "syn"}
      /\ next = "est" => x.p.state = "est" /\ g = 0
      /\ x.p.state = "est" /\ g = 0 => next = "est"
      /\ next = "closewait" => \/ x.p.state = "closewait"
                               \/ x.p.state = "est" /\ g = 1
      /\ next = "lastack" => x.p.state = "lastack"
      /\ x.p.state = "lastack" => next = "lastack"
      /\ next \notin {"est", "closewait"} => x.p.state \notin {"est", "closewait"}
  <2>1. CASE x.p.state \in {"est", "closewait", "lastack"}
    <3>1. CASE x.p.state = "est"
      <4>1. next = IF told THEN "closewait" ELSE "est"
        BY <3>1 DEF NextState
      <4> HIDE DEF next
      <4> QED
        BY <3>1, <4>1, Values
    <3>2. CASE x.p.state \in {"closewait", "lastack"}
      <4>1. next = x.p.state
        BY <3>2 DEF NextState
      <4> HIDE DEF next
      <4>2. CASE x.p.state = "closewait"
        BY <4>1, <4>2, Values
      <4>3. CASE x.p.state = "lastack"
        BY <4>1, <4>3, Values
      <4> QED
        BY <3>2, <4>2, <4>3
    <3> QED
      BY <2>1, <3>1, <3>2
  <2>2. CASE x.p.state \in {"finwait1", "finwait2", "closing"}
    <3>1. next \in {"finwait1", "finwait2", "closing", "timewait"}
      BY <2>2 DEF NextState
    <3> HIDE DEF next
    <3> QED
      BY <2>2, <3>1, Values
  <2> QED
    BY <2>1, <2>2 DEF Active
<1>5. next \notin Active => next = "timewait" /\ x.p.state \notin {"est", "closewait"}
  BY <1>4 DEF PcbStates, Active
<1> HIDE DEF next
<1>6. fly \in Inflight
  BY <1>1, Values DEF PcbType
<1> HIDE DEF fly
<1>7. q \in PcbType
  <2>1. x.p.unread + d + g \in Nat
    BY <1>1
  <2> QED
    BY <1>1, <1>3, <1>4, <1>6, <2>1 DEF PcbType
<1>8. /\ q.state = next /\ q.owned = x.p.owned /\ q.rxClosed = x.p.rxClosed
      /\ q.closePend = x.p.closePend /\ q.refused = x.p.refused
      /\ q.refusedFin = x.p.refusedFin /\ q.unread = x.p.unread + d + g
  BY <1>1, <1>3 DEF PcbType
<1> HIDE DEF q
<1>9. /\ y \in ConnType /\ y.p = q /\ y.n = x.n /\ y.b = x.b + d /\ y.lost = x.lost
  <2>1. x.b + d \in Nat
    BY <1>1
  <2> QED
    BY <1>1, <1>7, <2>1 DEF ConnType
<1> HIDE DEF y
<1>10. CountInv(y, a, o, u, t, e, d, g)
  <2>1. /\ x.b = x.p.refused + DataIn(x.n.recvmbox) + u + 0
        /\ x.b <= s /\ x.p.unread <= s + f
    BY DEF ConnInv, CountInv
  <2>2. /\ x.p.refused \in 0 .. 1 /\ DataIn(x.n.recvmbox) \in Nat
        /\ Bit(x.p.refusedFin) \in 0 .. 1 /\ Due(a, o, u) \in 0 .. 1
    BY <1>1, Parts, BitType
  <2>3. y.b = y.p.refused + DataIn(y.n.recvmbox) + u + d /\ y.b <= t
    BY <1>1, <1>8, <1>9, <2>1, <2>2
  <2>4. x.p.unread + d + g <= t + e
    BY <1>1, <2>1
  <2>5. ASSUME x.p.owned /\ ~x.p.rxClosed
        PROVE  y.p.unread = y.p.refused + Bit(y.p.refusedFin) + DataIn(y.n.recvmbox)
                              + Due(a, o, u) + d + g
    <3>1. x.p.unread = x.p.refused + Bit(x.p.refusedFin) + DataIn(x.n.recvmbox)
                         + Due(a, o, u) + 0 + 0
      BY <2>5 DEF ConnInv, CountInv
    <3>2. x.p.unread + d + g = x.p.refused + Bit(x.p.refusedFin) + DataIn(x.n.recvmbox)
                         + Due(a, o, u) + d + g
      BY <1>1, <2>2, <3>1
    <3> QED
      BY <1>8, <1>9, <3>2
  <2> QED
    BY <1>8, <1>9, <2>3, <2>4, <2>5 DEF CountInv
<1>11. EarlyInv(y, a, t, e, d, g)
  <2>1. SUFFICES ASSUME a \in Early, x.n.recvmbox = <<>>
                 PROVE  /\ y.p.refused = 0
                        /\ \/ d > 0 /\ y.p.owned
                           \/ g > 0 /\ y.p.owned
                           \/ y.p.state = "est" /\ t = 0 /\ e = 0
    BY <1>9 DEF EarlyInv
  <2>2. x.p.refused = 0 /\ x.p.state = "est" /\ s = 0 /\ f = 0
    BY <2>1 DEF ConnInv, EarlyInv
  <2>3. x.p.owned
    BY <2>2 DEF ConnInv, PcbInv
  <2>4. CASE d + g = 0
    <3>1. g = 0 /\ t = 0 /\ e = 0
      BY <2>2, <2>4
    <3> QED
      BY <1>4, <1>8, <1>9, <2>2, <3>1
  <2>5. CASE d + g > 0
    <3>1. d > 0 \/ g > 0
      BY <2>5
    <3> QED
      BY <1>8, <1>9, <2>2, <2>3, <3>1
  <2>6. d + g \in Nat
    OBVIOUS
  <2> QED
    BY <2>4, <2>5, <2>6
<1>12. CASE next # "timewait"
  <2>1. PcbInv(q, x.n, e, d, g)
    <3>1. /\ x.p.state \in {"closewait", "lastack"} => f = 1
          /\ ~x.p.rxClosed /\ x.p.refusedFin => x.p.refused = 1 /\ f = 1
          /\ x.p.rxClosed => x.p.refused = 0
      BY DEF ConnInv, PcbInv
    <3>2. /\ next \in {"closewait", "lastack"} => e = 1
          /\ ~x.p.rxClosed /\ x.p.refusedFin => x.p.refused = 1 /\ e = 1 /\ g = 0
          /\ d > 0 => x.p.refused = 0
      BY <1>4, <3>1
    <3>3. next \in Active
      BY <1>5, <1>12
    <3>4. /\ x.p.state \in {"est", "closewait"} => x.p.owned
          /\ x.p.state \notin {"est", "closewait"} => x.p.rxClosed
          /\ x.p.owned => x.n.pcb
          /\ x.n.pcb => x.p.owned
          /\ x.p.owned /\ x.p.state \notin {"est", "closewait"} => x.n.state = "close"
          /\ x.p.owned => (x.p.rxClosed <=> ~x.n.valid)
          /\ x.p.closePend /\ x.p.state \in {"est", "closewait"} => x.n.state = "close"
      BY DEF ConnInv, PcbInv, Active
    <3> QED
      BY <1>4, <1>8, <3>1, <3>2, <3>3, <3>4 DEF PcbInv
  <2>2. ConnInv(y, a, o, u, t, e, d, g)
    BY <1>9, <1>10, <1>11, <2>1 DEF ConnInv
  <2> QED
    BY <1>2, <1>4, <1>8, <1>9, <1>12, <2>2
<1>13. CASE next = "timewait"
  <2>1. x.p.state \notin {"est", "closewait"} /\ x.p.rxClosed /\ x.p.refused = 0
    <3>1. x.p.state \notin {"est", "closewait"}
      BY <1>4, <1>13
    <3>2. x.p.state \notin {"free", "syn", "est", "closewait"}
      BY <3>1 DEF Active
    <3> QED
      BY <3>1, <3>2 DEF ConnInv, PcbInv
  <2>2. /\ TimeWait(q) \in PcbType /\ TimeWait(q).state = "timewait"
        /\ TimeWait(q).owned = q.owned /\ TimeWait(q).rxClosed = q.rxClosed
        /\ TimeWait(q).refused = 0 /\ TimeWait(q).unread = 0
    BY <1>7, TimeWaitIs
  <2>3. z \in ConnType /\ z.p = TimeWait(q) /\ z.n = x.n /\ z.b = x.b + d /\ z.lost = x.lost
    BY <1>9, <2>2 DEF ConnType
  <2> HIDE DEF z
  <2>4. x.n.pcb => x.p.owned /\ x.n.state = "close"
    BY <2>1 DEF ConnInv, PcbInv, Active
  <2>5. PcbInv(TimeWait(q), x.n, e, d, g)
    <3>1. x.p.owned => x.n.pcb
      BY DEF ConnInv, PcbInv
    <3>2. x.p.owned => ~x.n.valid
      BY <2>1 DEF ConnInv, PcbInv
    <3> QED
      BY <1>8, <2>1, <2>2, <2>4, <3>1, <3>2 DEF PcbInv, Active
  <2>6. CountInv(z, a, o, u, t, e, d, g)
    <3>1. y.b = y.p.refused + DataIn(y.n.recvmbox) + u + d /\ y.b <= t
      BY <1>10 DEF CountInv
    <3>2. 0 <= t + e
      OBVIOUS
    <3> QED
      BY <1>8, <1>9, <2>1, <2>2, <2>3, <3>1, <3>2, ZenonT(60) DEF CountInv
  <2>7. EarlyInv(z, a, t, e, d, g)
    <3>1. SUFFICES ASSUME a \in Early
                   PROVE  x.n.recvmbox # <<>>
      BY <2>3 DEF EarlyInv
    <3>2. x.p.state # "est"
      BY <2>1
    <3> QED
      BY <3>1, <3>2 DEF ConnInv, EarlyInv
  <2>8. ConnInv(z, a, o, u, t, e, d, g)
    BY <2>3, <2>5, <2>6, <2>7 DEF ConnInv
  <2> QED
    BY <1>2, <1>4, <1>8, <1>13, <2>2, <2>3, <2>8
<1> QED
  BY <1>12, <1>13

\* In LAST_ACK all has been told; what Freed() may leave.
MayEnd(x, last, d) ==
  /\ last \in BOOLEAN /\ x.p.state # "syn" /\ x.lost = 0
  /\ last => d = 0 /\ x.p.state \in {"lastack", "free"}
Ended(x, y, a, o, u, s, f, d, g) ==
  /\ y.lost \in 0 .. 1
  /\ y.p.state = "free" => Fits(y, a, o, u, s, f, 0, 0)
  /\ y.p.state # "free" => Fits(y, a, o, u, s, f, d, g) /\ y = x

\* What a segment brings to a pcb that is gone is lost, and the last ACK of a
\* connection brings nothing.
LEMMA FreedKeeps ==
  ASSUME NEW x, NEW a, NEW o, NEW u, NEW s, NEW f, NEW d, NEW g, NEW last,
         Fits(x, a, o, u, s, f, d, g), MayEnd(x, last, d)
  PROVE  Ended(x, Freed(x, last, d), a, o, u, s, f, d, g)
<1> SUFFICES ASSUME a \in Roles, o \in 0 .. 1, u \in 0 .. 1, s \in Nat, f \in 0 .. 1,
                    d \in 0 .. 1, g \in 0 .. 1, ConnInv(x, a, o, u, s, f, d, g),
                    last \in BOOLEAN, x.p.state # "syn", x.lost = 0,
                    last => d = 0 /\ x.p.state \in {"lastack", "free"}
             PROVE  /\ Freed(x, last, d).lost \in 0 .. 1
                    /\ Freed(x, last, d).p.state = "free" =>
                         ConnInv(Freed(x, last, d), a, o, u, s, f, 0, 0)
                    /\ Freed(x, last, d).p.state # "free" =>
                         ConnInv(Freed(x, last, d), a, o, u, s, f, d, g) /\ Freed(x, last, d) = x
  BY DEF Fits, MayEnd, Ended
<1>1. x \in ConnType
  BY DEF ConnInv
<1>2. CASE x.p.state = "free"
  <2> DEFINE y == [x EXCEPT !.b = x.b - d, !.lost = d]
  <2>1. Freed(x, last, d) = y
    BY <1>1, <1>2 DEF Freed, ConnType
  <2>2. x.b - d \in Nat
    <3>1. x.b = x.p.refused + DataIn(x.n.recvmbox) + u + d
      BY DEF ConnInv, CountInv
    <3> QED
      BY <1>1, <3>1, Parts, SMTT(30)
  <2>3. y \in ConnType /\ y.p = x.p /\ y.n = x.n /\ y.b = x.b - d /\ y.lost = d
    BY <1>1, <2>2, Values DEF ConnType
  <2> HIDE DEF y
  <2>4. Untold(x.p)
    BY <1>2 DEF Untold, ConnInv, PcbInv
  <2>5. 0 \in 0 .. g
    OBVIOUS
  <2>6. ConnInv(y, a, o, u, s, f, 0, 0)
    BY <2>3, <2>4, <2>5, DropKeeps
  <2> QED
    BY <1>2, <2>1, <2>3, <2>6
<1>3. CASE x.p.state # "free" /\ ~last
  <2>1. Freed(x, last, d) = x
    BY <1>3 DEF Freed
  <2> QED
    BY <1>3, <2>1
<1>4. CASE x.p.state # "free" /\ last
  <2>1. x.p.state = "lastack" /\ d = 0
    BY <1>4
  <2>2. x.p.rxClosed
    BY <2>1 DEF ConnInv, PcbInv
  <2> DEFINE y == [x EXCEPT !.p = NoPcb]
  <2>3. Freed(x, last, d) = y
    BY <1>4, <2>2 DEF Freed
  <2>4. y \in ConnType /\ y.p = NoPcb /\ y.n = x.n /\ y.b = x.b /\ y.lost = 0
    BY <1>1, Blank DEF ConnType
  <2> HIDE DEF y
  <2>5. x.p.refused = 0 /\ (x.n.pcb => x.n.state = "close")
    BY <2>1, <2>2 DEF ConnInv, PcbInv, Active
  <2>6. PcbInv(y.p, y.n, f, 0, 0)
    BY <2>4, <2>5, Blank DEF PcbInv, Active
  <2>7. CountInv(y, a, o, u, s, f, 0, 0)
    <3>1. x.b = x.p.refused + DataIn(x.n.recvmbox) + u + d /\ x.b <= s
      BY DEF ConnInv, CountInv
    <3> QED
      BY <2>1, <2>4, <2>5, <3>1, Blank DEF CountInv
  <2>8. EarlyInv(y, a, s, f, 0, 0)
    <3>1. SUFFICES ASSUME a \in Early
                   PROVE  x.n.recvmbox # <<>>
      BY <2>4 DEF EarlyInv
    <3>2. x.n.valid
      BY <3>1 DEF ConnInv, NetconnInv
    <3>3. ~x.p.owned
      BY <2>2, <3>2 DEF ConnInv, PcbInv
    <3> QED
      BY <2>1, <3>1, <3>3 DEF ConnInv, EarlyInv
  <2>9. ConnInv(y, a, o, u, s, f, 0, 0)
    BY <2>4, <2>6, <2>7, <2>8 DEF ConnInv
  <2> QED
    BY <2>3, <2>4, <2>9, Blank
<1> QED
  BY <1>2, <1>3, <1>4

\* RetryKeeps, with what its arguments may be as one fact.
LEMMA RetryFits ==
  ASSUME NEW x, NEW a, NEW o, NEW u, NEW s, NEW f, Fits(x, a, o, u, s, f, 0, 0)
  PROVE  /\ Fits(Retry(x), a, o, u, s, f, 0, 0)
         /\ Retry(x).p.state = x.p.state /\ Retry(x).lost = x.lost
BY RetryKeeps DEF Fits

\* SentKeeps, likewise.
LEMMA SentFits ==
  ASSUME NEW x, NEW a, NEW o, NEW u, NEW s, NEW f, NEW d, NEW g,
         Fits(x, a, o, u, s, f, d, g), x.p.owned, NEW y \in Sent(x)
  PROVE  /\ Fits(y, a, o, u, s, f, d, g) /\ After(x, y)
         /\ x.p.state = "lastack" => y.p.state \in {"lastack", "free"}
BY SentKeeps DEF Fits, After

\* TellFinTooKeeps, likewise.
LEMMA TellFinTooFits ==
  ASSUME NEW x, NEW a, NEW o, NEW u, NEW s, NEW f, NEW g, NEW told \in BOOLEAN,
         Fits(x, a, o, u, s, f, 0, g), Alive(x), told <=> g = 1, g <= f
  PROVE  Fits(TellFinToo(x, told), a, o, u, s, f, 0, 0) /\ After(x, TellFinToo(x, told))
<1>1. CASE g = 0
  BY <1>1 DEF TellFinToo, Alive, After
<1>2. CASE g = 1
  BY <1>2, TellFinTooKeeps DEF Fits, Alive, After
<1> QED
  BY <1>1, <1>2 DEF Fits

\* With no pcb left to tell them, data and FIN are counted no more.
LEMMA NobodyFits ==
  ASSUME NEW x, NEW a, NEW o, NEW u, NEW s, NEW f, NEW g,
         Fits(x, a, o, u, s, f, 0, g), x.p.state = "free"
  PROVE  Fits(x, a, o, u, s, f, 0, 0)
<1>1. Untold(x.p) /\ x \in ConnType /\ x.b = x.b - 0 /\ 0 \in 0 .. g
  BY Parts DEF Fits, Untold, ConnInv, PcbInv
<1> QED
  BY <1>1, DropKeeps DEF Fits

\* The data of a segment, then its FIN, as long as there is a pcb.
LEMMA ToldFits ==
  ASSUME NEW x, NEW a, NEW o, NEW u, NEW s, NEW f, NEW d, NEW g, NEW told \in BOOLEAN,
         Fits(x, a, o, u, s, f, d, g), Alive(x), told <=> g = 1, g <= f,
         NEW z, z = IF TellData(x, d).p.state = "free" THEN TellData(x, d)
                    ELSE TellFinToo(TellData(x, d), told)
  PROVE  Fits(z, a, o, u, s, f, 0, 0) /\ After(x, z)
<1> DEFINE w == TellData(x, d)
<1>1. Fits(w, a, o, u, s, f, 0, g) /\ After(x, w)
  BY TellDataKeeps
<1> HIDE DEF w
<1>2. CASE w.p.state = "free"
  <2>1. z = w
    BY <1>2 DEF w
  <2> QED
    BY <1>1, <1>2, <2>1, NobodyFits
<1>3. CASE w.p.state # "free"
  <2>1. z = TellFinToo(w, told)
    BY <1>3 DEF w
  <2>2. Alive(w)
    BY <1>1, <1>3 DEF Alive, After
  <2>3. Fits(z, a, o, u, s, f, 0, 0) /\ After(w, z)
    BY <1>1, <2>1, <2>2, TellFinTooFits
  <2> QED
    BY <1>1, <2>3 DEF After
<1> QED
  BY <1>2, <1>3

\* tcp_input(): what was refused, the ACK, the data and the FIN, in this order.
LEMMA InputKeeps ==
  ASSUME NEW x, NEW a, NEW o, NEW u, NEW s, NEW f, NEW d, NEW g, NEW told, NEW ack,
         Fits(x, a, o, u, s, f, 0, 0), x.lost = 0, Takes(Retry(x), f, d, g, told)
  PROVE  \A w \in Input(x, d, told, ack) :
           Fits(w, a, o, u, s + d, f + g, 0, 0) /\ w.lost \in 0 .. 1 /\ w.p.state # "syn"
<1> DEFINE r     == Retry(x)
           y     == Processed(r, d, told, ack)
           last  == r.p.state = "lastack" /\ ack = "all"
           acked == IF r.p.owned /\ ack # "none" /\ r.p.inflight > 0 THEN Sent(y) ELSE {y}
           Data(z) == IF z.p.state = "free" THEN z ELSE TellData(z, d)
           Fin(z)  == IF z.p.state = "free" THEN z ELSE TellFinToo(z, told)
           t     == s + d
           e     == f + g
<1>1. Input(x, d, told, ack) = {Fin(Data(Freed(z, last, d))) : z \in acked}
  BY DEF Input
<1>2. Fits(r, a, o, u, s, f, 0, 0) /\ r.lost = 0 /\ Takes(r, f, d, g, told)
  BY RetryFits
<1>3. told \in BOOLEAN /\ (told <=> g = 1) /\ g <= e
  BY DEF Fits, Takes
<1> HIDE DEF r, t, e
<1>4. Fits(y, a, o, u, t, e, d, g) /\ Told(r, y)
  BY <1>2, ProcessedKeeps DEF t, e
<1> HIDE DEF y
<1>5. r.p.state = "lastack" => d = 0
  BY <1>2 DEF Fits, Takes, ConnInv, PcbInv
<1>6. ASSUME NEW z \in acked
      PROVE  /\ Fits(z, a, o, u, t, e, d, g) /\ z.lost = 0 /\ z.p.state # "syn"
             /\ r.p.state = "lastack" => z.p.state \in {"lastack", "free"}
  <2>1. CASE z = y
    BY <1>2, <1>4, <2>1 DEF Told
  <2>2. CASE y.p.owned /\ z \in Sent(y)
    <3>1. /\ Fits(z, a, o, u, t, e, d, g) /\ After(y, z)
          /\ y.p.state = "lastack" => z.p.state \in {"lastack", "free"}
      BY <1>4, <2>2, SentFits
    <3> QED
      BY <1>2, <1>4, <3>1 DEF Told, After
  <2> QED
    BY <1>4, <2>1, <2>2 DEF Told
<1> HIDE DEF acked
<1>7. last \in BOOLEAN
  OBVIOUS
<1>8. ASSUME NEW z \in acked
      PROVE  /\ Fits(Fin(Data(Freed(z, last, d))), a, o, u, t, e, 0, 0)
             /\ Fin(Data(Freed(z, last, d))).lost \in 0 .. 1
             /\ Fin(Data(Freed(z, last, d))).p.state # "syn"
  <2>1. Fits(z, a, o, u, t, e, d, g) /\ z.lost = 0 /\ z.p.state # "syn"
    BY <1>6
  <2>2. last => d = 0 /\ z.p.state \in {"lastack", "free"}
    BY <1>5, <1>6
  <2> HIDE DEF last
  <2>3. MayEnd(z, last, d)
    BY <1>7, <2>1, <2>2 DEF MayEnd
  <2> DEFINE v == Freed(z, last, d)
  <2>4. Ended(z, v, a, o, u, t, e, d, g)
    BY <2>1, <2>3, FreedKeeps
  <2> HIDE DEF v
  <2>5. CASE v.p.state = "free"
    <3>1. Fin(Data(v)) = v
      BY <2>5
    <3>2. Fits(v, a, o, u, t, e, 0, 0) /\ v.lost \in 0 .. 1 /\ v.p.state # "syn"
      BY <2>4, <2>5 DEF Ended
    <3> QED
      BY <3>1, <3>2 DEF v
  <2>6. CASE v.p.state # "free"
    <3>1. Fits(v, a, o, u, t, e, d, g) /\ v.lost \in 0 .. 1 /\ Alive(v)
      BY <2>1, <2>4, <2>6 DEF Ended, Alive
    <3>2. Fin(Data(v)) = IF TellData(v, d).p.state = "free" THEN TellData(v, d)
                         ELSE TellFinToo(TellData(v, d), told)
      BY <2>6
    <3> HIDE DEF Fin, Data
    <3>3. Fits(Fin(Data(v)), a, o, u, t, e, 0, 0) /\ After(v, Fin(Data(v)))
      BY <1>3, <3>1, <3>2, ToldFits
    <3>4. Fin(Data(v)).lost \in 0 .. 1 /\ Fin(Data(v)).p.state # "syn"
      BY <3>1, <3>3 DEF After
    <3> QED
      BY <3>3, <3>4 DEF v
  <2> QED
    BY <2>5, <2>6
<1> HIDE DEF Fin, Data, last
<1> QED
  BY <1>1, <1>8 DEF t, e

\* tcp_fasttmr(): a FIN there was no memory for, then what was refused.
LEMMA FastTimerKeeps ==
  ASSUME NEW x, NEW a \in Roles, NEW o \in 0 .. 1, NEW u \in 0 .. 1,
         NEW s \in Nat, NEW f \in 0 .. 1, ConnInv(x, a, o, u, s, f, 0, 0)
  PROVE  LET y == [x EXCEPT !.p.closePend = FALSE]
             S == IF x.p.closePend THEN {r.x : r \in SendFin(y)} ELSE {y}
         IN  \A z \in S : /\ ConnInv(Retry(z), a, o, u, s, f, 0, 0) /\ Retry(z).lost = x.lost
                          /\ x.p.state # "syn" => Retry(z).p.state # "syn"
<1> DEFINE y == [x EXCEPT !.p.closePend = FALSE]
           S == IF x.p.closePend THEN {r.x : r \in SendFin(y)} ELSE {y}
<1>1. x \in ConnType /\ x.p \in PcbType /\ x.n \in NetconnType
  BY Parts DEF ConnInv
<1>2. CASE ~x.p.closePend
  <2>1. y = x
    <3>1. [x.p EXCEPT !.closePend = FALSE] = x.p
      BY <1>1, <1>2 DEF PcbType
    <3> QED
      BY <1>1, <3>1 DEF ConnType
  <2> QED
    BY <1>2, <2>1, RetryKeeps
<1>3. CASE x.p.closePend
  <2>1. x.p.state \notin {"free", "syn"}
    BY <1>3, Blank DEF ConnInv, PcbInv
  <2>2. ASSUME NEW q \in PcbType, q.owned = x.p.owned, q.rxClosed = x.p.rxClosed,
               q.refused = x.p.refused, q.refusedFin = x.p.refusedFin, q.unread = x.p.unread,
               q.state = x.p.state \/ x.n.state = "close", PcbInv(q, x.n, f, 0, 0)
        PROVE  ConnInv([x EXCEPT !.p = q], a, o, u, s, f, 0, 0)
    <3> DEFINE z == [x EXCEPT !.p = q]
    <3>1. z \in ConnType /\ z.p = q /\ z.n = x.n /\ z.b = x.b
      BY <1>1 DEF ConnType
    <3> HIDE DEF z
    <3>2. CountInv(z, a, o, u, s, f, 0, 0)
      BY <2>2, <3>1 DEF ConnInv, CountInv
    <3>3. EarlyInv(z, a, s, f, 0, 0)
      <4>1. x.n.state = "close" => a \notin Early
        BY DEF ConnInv, NetconnInv, Early
      <4> QED
        BY <2>2, <3>1, <4>1 DEF ConnInv, EarlyInv
    <3>4. ConnInv(z, a, o, u, s, f, 0, 0)
      BY <2>2, <3>1, <3>2, <3>3 DEF ConnInv
    <3> QED
      BY <3>4 DEF z
  <2> DEFINE q1 == [x.p EXCEPT !.closePend = FALSE]
             next == IF x.p.state = "closewait" THEN "lastack" ELSE "finwait1"
             q2 == [q1 EXCEPT !.state = next]
  <2>3. /\ q1 \in PcbType /\ q1.owned = x.p.owned /\ q1.rxClosed = x.p.rxClosed
        /\ q1.refused = x.p.refused /\ q1.refusedFin = x.p.refusedFin /\ q1.unread = x.p.unread
        /\ q1.state = x.p.state /\ ~q1.closePend
    BY <1>1 DEF PcbType
  <2>4. y = [x EXCEPT !.p = q1]
    BY <1>1 DEF ConnType
  <2> HIDE DEF q1
  <2>5. ConnInv([x EXCEPT !.p = q1], a, o, u, s, f, 0, 0)
    <3>1. PcbInv(q1, x.n, f, 0, 0)
      BY <2>1, <2>3 DEF ConnInv, PcbInv
    <3> QED
      BY <2>2, <2>3, <3>1
  <2>6. CASE x.p.state \in {"est", "closewait"}
    <3>1. /\ q2 \in PcbType /\ q2.owned = x.p.owned /\ q2.rxClosed = x.p.rxClosed
          /\ q2.refused = x.p.refused /\ q2.refusedFin = x.p.refusedFin /\ q2.unread = x.p.unread
          /\ q2.state = next /\ ~q2.closePend
      BY <2>3, Values DEF PcbType
    <3>2. /\ x.n.state = "close" /\ x.p.owned /\ x.n.pcb /\ x.p.rxClosed /\ ~x.n.valid
          /\ x.p.refused = 0
      BY <1>3, <2>6 DEF ConnInv, PcbInv, NetconnInv
    <3>3. next = "lastack" => f = 1
      BY <2>6 DEF ConnInv, PcbInv
    <3>4. PcbInv(q2, x.n, f, 0, 0)
      <4>1. next \in {"lastack", "finwait1"}
        OBVIOUS
      <4> HIDE DEF next, q2
      <4> QED
        BY <3>1, <3>2, <3>3, <4>1 DEF PcbInv, Active
    <3>5. ConnInv([x EXCEPT !.p = q2], a, o, u, s, f, 0, 0)
      BY <2>2, <3>1, <3>2, <3>4
    <3>6. ASSUME NEW z \in S
          PROVE  z = [x EXCEPT !.p = q2] \/ z = x
      <4> DEFINE z2 == [y EXCEPT !.p.state = next]
                 z3 == [y EXCEPT !.p.closePend = TRUE]
      <4>1. z2 = [x EXCEPT !.p = q2]
        BY <1>1, <2>4 DEF ConnType
      <4>2. z3 = x
        <5>1. [q1 EXCEPT !.closePend = TRUE] = x.p
          BY <1>1, <1>3 DEF PcbType, q1
        <5> QED
          BY <1>1, <2>4, <5>1 DEF ConnType
      <4>3. y.p.state = x.p.state
        BY <1>1, <2>3, <2>4 DEF ConnType
      <4>4. SendFin(y) = {[ok |-> TRUE, x |-> z2], [ok |-> FALSE, x |-> z3]}
        BY <2>6, <4>3 DEF SendFin
      <4> HIDE DEF z2, z3, y
      <4>5. PICK r \in SendFin(y) : z = r.x
        BY <1>3
      <4>6. r.x = z2 \/ r.x = z3
        BY <4>4
      <4> QED
        BY <4>1, <4>2, <4>5, <4>6
    <3>7. [x EXCEPT !.p = q2].lost = x.lost /\ [x EXCEPT !.p = q2].p.state # "syn"
      <4>1. next # "syn"
        OBVIOUS
      <4> HIDE DEF q2, next
      <4> QED
        BY <1>1, <3>1, <4>1 DEF ConnType
    <3> HIDE DEF S, q2
    <3>8. ASSUME NEW z \in S
          PROVE  ConnInv(z, a, o, u, s, f, 0, 0) /\ z.lost = x.lost /\ z.p.state # "syn"
      BY <2>1, <3>5, <3>6, <3>7, <3>8
    <3> QED
      BY <3>8, RetryKeeps DEF S
  <2>7. CASE x.p.state \notin {"est", "closewait"}
    <3>1. y.p.state = x.p.state /\ y.lost = x.lost
      BY <1>1, <2>3, <2>4 DEF ConnType
    <3>2. SendFin(y) = {[ok |-> TRUE, x |-> y]}
      BY <2>1, <2>7, <3>1 DEF SendFin
    <3>3. ConnInv(y, a, o, u, s, f, 0, 0)
      BY <2>4, <2>5
    <3> HIDE DEF y
    <3>4. S = {y}
      BY <1>3, <3>2
    <3> HIDE DEF S
    <3> QED
      BY <3>1, <3>3, <3>4, RetryKeeps DEF S, y
  <2> QED
    BY <2>6, <2>7
<1> QED
  BY <1>2, <1>3

-----------------------------------------------------------------------------
(* Requests of the web thread.                                             *)

\* A posted request that tcpip_thread just acknowledges.
LEMMA AckedKeeps ==
  ASSUME NEW x, NEW a \in Asking, NEW u \in 0 .. 1, NEW s \in Nat, NEW f \in 0 .. 1,
         ConnInv(x, a, 1, u, s, f, 0, 0), a # "recved",
         a \in {"close", "delete"} => ~x.n.pcb, a = "delete" => ~x.n.valid
  PROVE  \A y \in Acked(x) : ConnInv(y, a, 0, u, s, f, 0, 0) /\ y.lost = x.lost
<1> DEFINE n == [x.n EXCEPT !.done = 1]
           y == [x EXCEPT !.n = n]
<1>1. x \in ConnType /\ x.p \in PcbType /\ x.n \in NetconnType
  BY Parts DEF ConnInv
<1>2. Acked(x) = {y}
  BY DEF Acked, Signalled
<1>3. /\ n \in NetconnType /\ n.done = 1 /\ n.used = x.n.used /\ n.pcb = x.n.pcb
      /\ n.state = x.n.state /\ n.valid = x.n.valid /\ n.recvmbox = x.n.recvmbox
      /\ n.msg = x.n.msg /\ n.shut = x.n.shut
  BY <1>1, Values DEF NetconnType
<1> HIDE DEF n
<1>4. y \in ConnType /\ y.n = n /\ y.p = x.p /\ y.b = x.b /\ y.lost = x.lost
  BY <1>1, <1>3 DEF ConnType
<1> HIDE DEF y
<1>5. x.n.state = "none" /\ ~x.n.msg /\ x.n.used
  BY DEF ConnInv, NetconnInv, Asking
<1>6. NetconnInv(n, a, 0)
  <2>1. n # NoNetconn /\ Len(n.recvmbox) <= RecvSize
    BY <1>3, Blank DEF ConnInv, NetconnInv
  <2>2. /\ a \in {"write"} => x.n.valid
        /\ ~x.n.valid => x.n.recvmbox = <<>>
    BY DEF ConnInv, NetconnInv
  <2> QED
    BY <1>3, <1>5, <2>1, <2>2 DEF NetconnInv, Early, Asking
<1>7. PcbInv(y.p, y.n, f, 0, 0)
  <2>1. y.p.state # "syn"
    <3>1. x.n # NoNetconn
      BY <1>5, Blank
    <3> QED
      BY <1>4, <3>1 DEF ConnInv, PcbInv
  <2> QED
    BY <1>3, <1>4, <2>1 DEF ConnInv, PcbInv
<1>8. CountInv(y, a, 0, u, s, f, 0, 0)
  <2>1. Due(a, 0, u) = Due(a, 1, u)
    BY DEF Due
  <2> QED
    BY <1>3, <1>4, <2>1 DEF ConnInv, CountInv
<1>9. EarlyInv(y, a, s, f, 0, 0)
  BY DEF EarlyInv, Early, Asking
<1> QED
  BY <1>2, <1>3, <1>4, <1>6, <1>7, <1>8, <1>9 DEF ConnInv

\* A posted request finds a netconn with nothing in hand, and its pcb, if it has
\* one, open.
LEMMA PostedIs ==
  ASSUME NEW x, NEW a \in Asking, NEW u \in 0 .. 1, NEW s \in Nat, NEW f \in 0 .. 1,
         ConnInv(x, a, 1, u, s, f, 0, 0)
  PROVE  /\ x.n.state = "none" /\ ~x.n.msg /\ x.n.done = 0 /\ x.n.used
         /\ x.n.pcb => x.p.owned /\ x.p.state \in {"est", "closewait"} /\ ~x.p.closePend
         /\ ~x.n.pcb => ~x.p.owned
<1>1. x.n.state = "none" /\ ~x.n.msg /\ x.n.done = 0 /\ x.n.used
  BY DEF ConnInv, NetconnInv, Asking
<1>2. x.n.pcb => x.p.owned
  BY <1>1 DEF ConnInv, PcbInv
<1>3. x.p.owned => x.n.pcb /\ x.p.state \in {"est", "closewait"}
  BY <1>1 DEF ConnInv, PcbInv
<1>4. x.p.state \in {"est", "closewait"} => ~x.p.closePend
  BY <1>1 DEF ConnInv, PcbInv
<1> QED
  BY <1>1, <1>2, <1>3, <1>4

\* tcp_recved(): k segments more of the window, no more than are missing.
LEMMA RecvedIs ==
  ASSUME NEW x \in ConnType, NEW k \in Nat, x.n.pcb => k <= x.p.unread
  PROVE  /\ Recved(x, k) \in ConnType
         /\ Recved(x, k).n = x.n /\ Recved(x, k).b = x.b /\ Recved(x, k).lost = x.lost
         /\ Recved(x, k).p = [x.p EXCEPT !.unread = IF x.n.pcb THEN x.p.unread - k ELSE x.p.unread]
<1> DEFINE v == IF x.n.pcb THEN x.p.unread - k ELSE x.p.unread
<1>1. x.p \in PcbType /\ x.p.unread \in Nat
  BY Parts
<1>2. v \in Nat
  BY <1>1
<1>3. [x.p EXCEPT !.unread = v] \in PcbType
  BY <1>1, <1>2 DEF PcbType
<1>4. Recved(x, k) = [x EXCEPT !.p = [x.p EXCEPT !.unread = v]]
  <2>1. CASE x.n.pcb
    BY <2>1 DEF Recved, ConnType
  <2>2. CASE ~x.n.pcb
    <3>1. [x.p EXCEPT !.unread = v] = x.p
      BY <1>1, <2>2 DEF PcbType
    <3> HIDE DEF v
    <3> QED
      BY <2>2, <3>1 DEF Recved, ConnType
  <2> QED
    BY <2>1, <2>2
<1> HIDE DEF v
<1> QED
  BY <1>3, <1>4 DEF ConnType, v

\* lwip_netconn_do_recv(): what the web thread has is in the window again.
LEMMA RecvedKeeps ==
  ASSUME NEW x, NEW a \in Asking, NEW u \in 0 .. 1, NEW s \in Nat, NEW f \in 0 .. 1,
         ConnInv(x, a, 1, u, s, f, 0, 0), a = "recved"
  PROVE  \A y \in Acked(Recved(x, u)) : ConnInv(y, a, 0, u, s, f, 0, 0) /\ y.lost = x.lost
<1> DEFINE z == Recved(x, u)
           v == IF x.n.pcb THEN x.p.unread - u ELSE x.p.unread
           q == [x.p EXCEPT !.unread = v]
           n == [x.n EXCEPT !.done = 1]
           y == [z EXCEPT !.n = n]
<1>1. x \in ConnType /\ x.p \in PcbType /\ x.n \in NetconnType /\ x.p.unread \in Nat
  BY Parts DEF ConnInv
<1>2. /\ x.n.state = "none" /\ ~x.n.msg /\ x.n.used /\ x.n.valid
      /\ x.n.pcb => x.p.owned
      /\ ~x.n.pcb => ~x.p.owned
  BY PostedIs DEF ConnInv, NetconnInv
<1>3. Due(a, 1, u) = u /\ Due(a, 0, u) = 0
  BY DEF Due
<1>4. ASSUME x.p.owned
      PROVE  x.p.unread = x.p.refused + Bit(x.p.refusedFin) + DataIn(x.n.recvmbox) + u + 0 + 0
  <2>1. ~x.p.rxClosed
    BY <1>2, <1>4 DEF ConnInv, PcbInv
  <2> QED
    BY <1>3, <1>4, <2>1 DEF ConnInv, CountInv
<1>5. x.n.pcb => u <= x.p.unread
  <2>1. SUFFICES ASSUME x.n.pcb PROVE u <= x.p.unread
    OBVIOUS
  <2>2. x.p.unread = x.p.refused + Bit(x.p.refusedFin) + DataIn(x.n.recvmbox) + u + 0 + 0
    BY <1>2, <1>4, <2>1
  <2> QED
    BY <1>1, <2>2, Parts
<1>6. /\ z \in ConnType /\ z.n = x.n /\ z.b = x.b /\ z.lost = x.lost /\ z.p = q
  <2>1. u \in Nat
    OBVIOUS
  <2> QED
    BY <1>1, <1>5, <2>1, RecvedIs
<1>7. Acked(z) = {y}
  BY <1>6 DEF Acked, Signalled
<1>8. /\ n \in NetconnType /\ n.done = 1 /\ n.used = x.n.used /\ n.pcb = x.n.pcb
      /\ n.state = x.n.state /\ n.valid = x.n.valid /\ n.recvmbox = x.n.recvmbox
      /\ n.msg = x.n.msg /\ n.shut = x.n.shut
  BY <1>1, Values DEF NetconnType
<1> HIDE DEF n, z, v
<1>9. /\ q.state = x.p.state /\ q.owned = x.p.owned /\ q.rxClosed = x.p.rxClosed
      /\ q.closePend = x.p.closePend /\ q.refused = x.p.refused
      /\ q.refusedFin = x.p.refusedFin /\ q.unread = v
  BY <1>1 DEF PcbType
<1> HIDE DEF q
<1>10. y \in ConnType /\ y.n = n /\ y.p = q /\ y.b = x.b /\ y.lost = x.lost
  BY <1>6, <1>8 DEF ConnType
<1> HIDE DEF y
<1>11. NetconnInv(n, a, 0)
  <2>1. n # NoNetconn /\ Len(n.recvmbox) <= RecvSize
    BY <1>2, <1>8, Blank DEF ConnInv, NetconnInv
  <2> QED
    BY <1>2, <1>8, <2>1 DEF NetconnInv, Early, Asking
<1>12. PcbInv(q, n, f, 0, 0)
  <2>1. x.p.state \notin {"syn", "free"} \/ ~x.n.pcb
    BY <1>2 DEF ConnInv, PcbInv
  <2>2. x.p.state # "syn"
    <3>1. x.n # NoNetconn
      BY <1>2, Blank
    <3> QED
      BY <3>1 DEF ConnInv, PcbInv
  <2>3. CASE x.n.pcb
    BY <1>8, <1>9, <2>1, <2>2, <2>3 DEF ConnInv, PcbInv
  <2>4. CASE ~x.n.pcb
    <3>1. q = x.p
      BY <1>1, <2>4 DEF q, v, PcbType
    <3> QED
      BY <1>8, <2>2, <3>1 DEF ConnInv, PcbInv
  <2> QED
    BY <2>3, <2>4
<1>13. CountInv(y, a, 0, u, s, f, 0, 0)
  <2>1. v <= s + f
    <3>1. x.p.unread <= s + f
      BY DEF ConnInv, CountInv
    <3>2. v <= x.p.unread
      BY <1>1 DEF v
    <3>3. v \in Nat
      BY <1>1, <1>5 DEF v
    <3> QED
      BY <1>1, <3>1, <3>2, <3>3
  <2>2. ASSUME x.p.owned
        PROVE  v = x.p.refused + Bit(x.p.refusedFin) + DataIn(x.n.recvmbox) + 0 + 0 + 0
    <3>1. v = x.p.unread - u
      BY <1>2, <2>2 DEF v
    <3>2. x.p.unread = x.p.refused + Bit(x.p.refusedFin) + DataIn(x.n.recvmbox) + u + 0 + 0
      BY <1>4, <2>2
    <3> QED
      BY <1>1, <3>1, <3>2, Parts
  <2> QED
    BY <1>3, <1>8, <1>9, <1>10, <2>1, <2>2 DEF ConnInv, CountInv
<1>14. EarlyInv(y, a, s, f, 0, 0)
  BY DEF EarlyInv, Early
<1> QED
  BY <1>7, <1>10, <1>11, <1>12, <1>13, <1>14 DEF ConnInv, z

\* y is what netconn_drain() leaves of x.
Drained(x, u, s, f, y) ==
  /\ y \in ConnType /\ y.lost = x.lost /\ y.b = x.p.refused + u /\ y.b <= s
  /\ y.p.state = x.p.state /\ y.p.owned = x.p.owned /\ y.p.rxClosed = x.p.rxClosed
  /\ y.p.closePend = x.p.closePend /\ y.p.refused = x.p.refused
  /\ y.p.refusedFin = x.p.refusedFin /\ y.p.unread <= s + f
  /\ ~x.n.pcb => y.p = x.p
  /\ y.n.used = x.n.used /\ y.n.pcb = x.n.pcb /\ y.n.state = x.n.state
  /\ y.n.msg = x.n.msg /\ y.n.done = x.n.done /\ y.n.recvmbox = <<>> /\ ~y.n.valid

\* netconn_drain()
LEMMA DrainIs ==
  ASSUME NEW x, NEW a \in Asking, NEW u \in 0 .. 1, NEW s \in Nat, NEW f \in 0 .. 1,
         ConnInv(x, a, 1, u, s, f, 0, 0)
  PROVE  Drained(x, u, s, f, Drain(x))
<1> DEFINE k == DataIn(x.n.recvmbox)
           v == IF x.n.pcb THEN x.p.unread - k ELSE x.p.unread
           z == Recved(x, k)
           n == [x.n EXCEPT !.recvmbox = <<>>, !.valid = FALSE]
           y == [z EXCEPT !.b = x.b - k, !.n = n]
<1>1. /\ x \in ConnType /\ x.p \in PcbType /\ x.n \in NetconnType /\ x.p.unread \in Nat
      /\ k \in Nat /\ x.b \in Nat /\ x.p.refused \in 0 .. 1
  BY Parts DEF ConnInv
<1>2. x.n.pcb => k <= x.p.unread
  <2>1. SUFFICES ASSUME x.n.pcb PROVE k <= x.p.unread
    OBVIOUS
  <2>2. x.p.owned
    BY <2>1, PostedIs
  <2>3. CASE ~x.n.valid
    <3>1. k = 0
      BY <2>3, DataInEmpty DEF ConnInv, NetconnInv
    <3> QED
      BY <1>1, <3>1
  <2>4. CASE x.n.valid
    <3>1. ~x.p.rxClosed
      BY <2>2, <2>4 DEF ConnInv, PcbInv
    <3>2. x.p.unread = x.p.refused + Bit(x.p.refusedFin) + k + Due(a, 1, u) + 0 + 0
      BY <2>2, <3>1 DEF ConnInv, CountInv
    <3>3. Bit(x.p.refusedFin) \in 0 .. 1 /\ Due(a, 1, u) \in 0 .. 1
      BY BitType
    <3> QED
      BY <1>1, <3>2, <3>3
  <2> QED
    BY <2>3, <2>4
<1>3. x.b = x.p.refused + k + u + 0 /\ x.b <= s /\ x.p.unread <= s + f
  BY DEF ConnInv, CountInv
<1> HIDE DEF k
<1>4. /\ z \in ConnType /\ z.n = x.n /\ z.b = x.b /\ z.lost = x.lost
      /\ z.p = [x.p EXCEPT !.unread = v]
  BY <1>1, <1>2, RecvedIs
<1>5. v \in Nat /\ v <= s + f
  <2>1. CASE x.n.pcb
    <3>1. v = x.p.unread - k
      BY <2>1
    <3> QED
      BY <1>1, <1>2, <1>3, <2>1, <3>1
  <2>2. CASE ~x.n.pcb
    BY <1>1, <1>3, <2>2
  <2> QED
    BY <2>1, <2>2
<1>6. x.b - k = x.p.refused + u /\ x.b - k \in Nat /\ x.b - k <= s
  <2>1. x.b - k = x.p.refused + u
    BY <1>1, <1>3
  <2>2. x.b - k <= s
    BY <1>1, <1>3
  <2> QED
    BY <1>1, <2>1, <2>2
<1>7. n \in NetconnType
  BY <1>1, Values DEF NetconnType
<1>8. Drain(x) = y
  BY <1>4 DEF Drain, ConnType, k
<1> HIDE DEF z, n, v
<1>9. y \in ConnType /\ y.p = z.p /\ y.n = n /\ y.b = x.b - k /\ y.lost = x.lost
  BY <1>4, <1>6, <1>7 DEF ConnType
<1> HIDE DEF y
<1>10. /\ z.p.state = x.p.state /\ z.p.owned = x.p.owned /\ z.p.rxClosed = x.p.rxClosed
       /\ z.p.closePend = x.p.closePend /\ z.p.refused = x.p.refused
       /\ z.p.refusedFin = x.p.refusedFin /\ z.p.unread = v
  BY <1>1, <1>4 DEF PcbType
<1>11. ~x.n.pcb => z.p = x.p
  BY <1>1, <1>4 DEF PcbType, v
<1>12. /\ n.used = x.n.used /\ n.pcb = x.n.pcb /\ n.state = x.n.state /\ n.msg = x.n.msg
       /\ n.done = x.n.done /\ n.recvmbox = <<>> /\ ~n.valid
  BY <1>1 DEF n, NetconnType
<1> QED
  BY <1>5, <1>6, <1>8, <1>9, <1>10, <1>11, <1>12 DEF Drained

\* lwip_netconn_do_close() and lwip_netconn_do_delconn() of a netconn with a pcb.
LEMMA DrainedIsPreClose ==
  ASSUME NEW x, NEW a \in Asking, NEW u \in 0 .. 1, NEW s \in Nat, NEW f \in 0 .. 1,
         ConnInv(x, a, 1, u, s, f, 0, 0), x.n.pcb,
         NEW how, \/ a \in {"close", "delete"} /\ how = "rdwr"
                  \/ a = "shut" /\ how = "rd"
  PROVE  PreClose(Closing(Drain(x), how), a, u, s, f, 0) /\ Closing(Drain(x), how).lost = x.lost
<1> DEFINE z == Drain(x)
           m == [z.n EXCEPT !.state = "close", !.msg = TRUE, !.shut = how, !.polls = PollsLeft]
           y == [z EXCEPT !.n = m]
<1>1. x \in ConnType /\ x.p \in PcbType /\ x.n \in NetconnType /\ x.p.refused \in 0 .. 1
  BY Parts DEF ConnInv
<1>2. Drained(x, u, s, f, z)
  BY DrainIs
<1>4. /\ x.n.state = "none" /\ x.n.done = 0 /\ x.n.used
      /\ x.p.owned /\ x.p.state \in {"est", "closewait"} /\ ~x.p.closePend
  BY PostedIs
<1> HIDE DEF z
<1>5. z \in ConnType /\ z.n \in NetconnType
  BY <1>2, Parts DEF Drained
<1>6. how \in Halves /\ "close" \in Operations /\ PollsLeft \in PollCounts
  BY Values
<1>8. /\ m \in NetconnType /\ m.valid = z.n.valid /\ m.recvmbox = z.n.recvmbox
      /\ m.used = z.n.used /\ m.pcb = z.n.pcb /\ m.done = z.n.done
      /\ m.state = "close" /\ m.msg /\ m.shut = how
  BY <1>5, <1>6 DEF NetconnType
<1>9. y = Closing(z, how)
  BY <1>5 DEF ConnType, Closing
<1> HIDE DEF m
<1>10. y \in ConnType /\ y.p = z.p /\ y.n = m /\ y.b = z.b /\ y.lost = z.lost
  BY <1>5, <1>8 DEF ConnType
<1> HIDE DEF y
<1>11. /\ x.p.rxClosed => x.p.refused = 0
       /\ x.p.state \in {"closewait", "lastack"} => f = 1
  BY DEF ConnInv, PcbInv
<1>12. y.b = y.p.refused + u + 0 /\ y.b <= s /\ y.p.unread <= s + f
  BY <1>1, <1>2, <1>10 DEF Drained
<1>13. PreClose(y, a, u, s, f, 0)
  <2>1. /\ y.p.state = x.p.state /\ y.p.owned /\ y.p.rxClosed = x.p.rxClosed
        /\ ~y.p.closePend /\ y.p.refused = x.p.refused
    BY <1>2, <1>4, <1>10 DEF Drained
  <2>2. /\ y.n.used /\ y.n.pcb /\ y.n.msg /\ y.n.state = "close" /\ y.n.done = 0
        /\ ~y.n.valid /\ y.n.recvmbox = <<>> /\ y.n.shut = how
    BY <1>2, <1>4, <1>8, <1>10 DEF Drained
  <2>3. \/ a \in {"close", "delete"} /\ y.n.shut = "rdwr"
        \/ a = "shut" /\ y.n.shut = "rd" /\ y.p.state \in {"est", "closewait"}
    BY <1>4, <2>1, <2>2
  <2> QED
    BY <1>4, <1>10, <1>11, <1>12, <2>1, <2>2, <2>3 DEF PreClose
<1> QED
  BY <1>2, <1>9, <1>10, <1>13 DEF z, Drained

\* lwip_netconn_do_delconn() of a netconn without one.
LEMMA DrainKeeps ==
  ASSUME NEW x, NEW a \in Asking, NEW u \in 0 .. 1, NEW s \in Nat, NEW f \in 0 .. 1,
         ConnInv(x, a, 1, u, s, f, 0, 0), ~x.n.pcb, a = "delete"
  PROVE  ConnInv(Drain(x), a, 1, u, s, f, 0, 0) /\ ~Drain(x).n.pcb /\ ~Drain(x).n.valid
         /\ Drain(x).lost = x.lost
<1> DEFINE z == Drain(x)
<1>1. Drained(x, u, s, f, z)
  BY DrainIs
<1>2. x.n.state = "none" /\ ~x.n.msg /\ x.n.done = 0 /\ x.n.used /\ ~x.p.owned
  BY PostedIs
<1> HIDE DEF z
<1>3. /\ z \in ConnType /\ z.p = x.p /\ z.b = x.p.refused + u /\ z.b <= s
      /\ z.n.used /\ ~z.n.pcb /\ z.n.state = "none" /\ ~z.n.msg /\ z.n.done = 0
      /\ z.n.recvmbox = <<>> /\ ~z.n.valid
  BY <1>1, <1>2 DEF Drained
<1>4. NetconnInv(z.n, a, 1)
  <2>1. z.n # NoNetconn /\ Len(z.n.recvmbox) <= RecvSize
    BY <1>3, Blank, DataInEmpty, Sizes
  <2> QED
    BY <1>3, <2>1 DEF NetconnInv, Early, Asking
<1>5. PcbInv(z.p, z.n, f, 0, 0)
  <2>1. x.p.state # "syn"
    <3>1. x.n # NoNetconn
      BY <1>2, Blank
    <3> QED
      BY <3>1 DEF ConnInv, PcbInv
  <2> QED
    BY <1>2, <1>3, <2>1 DEF ConnInv, PcbInv
<1>6. CountInv(z, a, 1, u, s, f, 0, 0)
  <2>1. DataIn(z.n.recvmbox) = 0
    BY <1>3, DataInEmpty
  <2>2. z.b = z.p.refused + DataIn(z.n.recvmbox) + u + 0
    BY <1>3, <2>1, Parts
  <2> QED
    BY <1>2, <1>3, <2>2 DEF ConnInv, CountInv
<1>7. EarlyInv(z, a, s, f, 0, 0)
  BY DEF EarlyInv, Early
<1> QED
  BY <1>1, <1>3, <1>4, <1>5, <1>6, <1>7 DEF ConnInv, Drained, z

\* lwip_netconn_do_write()
LEMMA WriteKeeps ==
  ASSUME NEW x, NEW a \in Asking, NEW u \in 0 .. 1, NEW s \in Nat, NEW f \in 0 .. 1,
         ConnInv(x, a, 1, u, s, f, 0, 0), a = "write", x.n.pcb, NEW len \in Lengths
  PROVE  \A z \in WriteMore(Writing(x, len)) : ConnInv(z, a, 0, u, s, f, 0, 0) /\ z.lost = x.lost
<1> DEFINE n == [x.n EXCEPT !.state = "write", !.msg = TRUE, !.left = len]
           y == [x EXCEPT !.n = n]
<1>1. x \in ConnType /\ x.p \in PcbType /\ x.n \in NetconnType
  BY Parts DEF ConnInv
<1>2. /\ x.n.state = "none" /\ ~x.n.msg /\ x.n.done = 0 /\ x.n.used /\ x.n.valid
      /\ x.p.owned /\ x.p.state \in {"est", "closewait"} /\ ~x.p.closePend
  BY PostedIs DEF ConnInv, NetconnInv
<1>3. "write" \in Operations
  BY Values
<1>4. /\ n \in NetconnType /\ n.valid = x.n.valid /\ n.recvmbox = x.n.recvmbox
      /\ n.used = x.n.used /\ n.pcb = x.n.pcb /\ n.done = x.n.done
      /\ n.state = "write" /\ n.msg
  BY <1>1, <1>3 DEF NetconnType
<1>5. y = Writing(x, len)
  BY <1>1 DEF ConnType, Writing
<1> HIDE DEF n
<1>6. y \in ConnType /\ y.p = x.p /\ y.n = n /\ y.b = x.b /\ y.lost = x.lost
  BY <1>1, <1>4 DEF ConnType
<1> HIDE DEF y
<1>7. NetconnInv(n, a, 0)
  <2>1. n # NoNetconn /\ Len(n.recvmbox) <= RecvSize
    BY <1>2, <1>4, Blank DEF ConnInv, NetconnInv
  <2> QED
    BY <1>2, <1>4, <2>1 DEF NetconnInv, Early, Asking
<1>8. PcbInv(y.p, n, f, 0, 0)
  <2>1. /\ x.p.owned => (x.p.rxClosed <=> ~x.n.valid)
        /\ x.p.rxClosed => x.p.refused = 0
        /\ ~x.p.rxClosed /\ x.p.refusedFin => x.p.refused = 1 /\ f = 1
        /\ x.p.state \in {"closewait", "lastack"} => f = 1
    BY DEF ConnInv, PcbInv
  <2> QED
    BY <1>2, <1>4, <1>6, <2>1 DEF PcbInv, Active
<1>9. CountInv(y, a, 0, u, s, f, 0, 0)
  <2>1. Due(a, 0, u) = Due(a, 1, u)
    BY DEF Due
  <2> QED
    BY <1>4, <1>6, <2>1 DEF ConnInv, CountInv
<1>10. EarlyInv(y, a, s, f, 0, 0)
  BY DEF EarlyInv, Early
<1>11. ConnInv(y, a, 0, u, s, f, 0, 0) /\ y.n.state = "write"
  BY <1>4, <1>6, <1>7, <1>8, <1>9, <1>10 DEF ConnInv
<1>12. a \in Roles
  BY DEF Roles
<1>13. \A z \in WriteMore(y) : ConnInv(z, a, 0, u, s, f, 0, 0) /\ z.lost = y.lost
  BY <1>11, <1>12, WriteMoreKeeps
<1> QED
  BY <1>5, <1>6, <1>13

-----------------------------------------------------------------------------
(* Steps.                                                                  *)

\* What the thread can be about with a connection.
LEMMA RoleTypes ==
  ASSUME ThreadInv, NEW c \in Conns
  PROVE  /\ Role(c) \in Roles /\ Asked(c) \in 0 .. 1 /\ Held(c) \in 0 .. 1 /\ Said(c) \in 0 .. 1
         /\ serving = c => Role(c) \in Asking \cup {"check", "fetch"}
<1>1. Asked(c) \in 0 .. 1 /\ Held(c) \in 0 .. 1 /\ Said(c) \in 0 .. 1
  BY DEF Asked, Held, Said
<1>2. serving = c => at \in Asking \cup {"check", "fetch"}
  <2>1. "nobody" # c
    BY Sizes
  <2> QED
    BY <2>1 DEF ThreadInv
<1> QED
  BY <1>1, <1>2 DEF Role, Roles, Early

\* What the invariant says of one connection.
LEMMA Now ==
  ASSUME IInv, NEW c \in Conns
  PROVE  /\ ConnInv(Conn(c), Role(c), Asked(c), Held(c), sent[c], Said(c), 0, 0)
         /\ Conn(c).p = pcb[c] /\ Conn(c).n = netconn[c] /\ Conn(c).b = pbufs[c]
         /\ Conn(c).lost = 0 /\ sent[c] \in Nat /\ sent[c] <= MaxSegs
<1>1. sent[c] \in 0 .. MaxSegs
  BY DEF IInv
<1> QED
  BY <1>1, Sizes DEF IInv, Kept, Conn

\* One connection becomes another, and what the thread and the clients are about
\* with the others is what it was.
LEMMA OneKeeps ==
  ASSUME IInv, NEW c \in Conns, NEW S, Becomes(c, S),
         \A x \in S : ConnInv(x, Role(c)', Asked(c)', Held(c)', sent'[c], Said(c)', 0, 0),
         \A e \in Conns \ {c} : /\ Role(e)' = Role(e) /\ Asked(e)' = Asked(e)
                                /\ Held(e)' = Held(e) /\ sent'[e] = sent[e] /\ Said(e)' = Said(e)
  PROVE  /\ pcb' \in [Conns -> PcbType] /\ netconn' \in [Conns -> NetconnType]
         /\ pbufs' \in [Conns -> Nat]
         /\ \A e \in Conns : Kept(e)'
<1>1. PICK x \in S : /\ pcb' = [pcb EXCEPT ![c] = x.p]
                     /\ netconn' = [netconn EXCEPT ![c] = x.n]
                     /\ pbufs' = [pbufs EXCEPT ![c] = x.b]
  BY DEF Becomes
<1>2. ConnInv(x, Role(c)', Asked(c)', Held(c)', sent'[c], Said(c)', 0, 0)
  BY <1>1
<1>3. x \in ConnType /\ x.p \in PcbType /\ x.n \in NetconnType /\ x.b \in Nat
  BY <1>2, Parts DEF ConnInv
<1>4. /\ pcb \in [Conns -> PcbType] /\ netconn \in [Conns -> NetconnType]
      /\ pbufs \in [Conns -> Nat]
  BY DEF IInv
<1>5. /\ pcb' \in [Conns -> PcbType] /\ netconn' \in [Conns -> NetconnType]
      /\ pbufs' \in [Conns -> Nat]
  BY <1>1, <1>3, <1>4
<1>6. Kept(c)'
  <2> DEFINE y == [p |-> x.p, n |-> x.n, b |-> x.b, lost |-> 0]
  <2>1. Conn(c)' = y
    BY <1>1, <1>4 DEF Conn
  <2>2. y \in ConnType /\ y.p = x.p /\ y.n = x.n /\ y.b = x.b
    BY <1>3, Values DEF ConnType
  <2> HIDE DEF y
  <2>3. ConnInv(y, Role(c)', Asked(c)', Held(c)', sent'[c], Said(c)', 0, 0)
    BY <1>2, <2>2 DEF ConnInv, CountInv, EarlyInv
  <2> QED
    BY <2>1, <2>3 DEF Kept
<1>7. ASSUME NEW e \in Conns, e # c
      PROVE  Kept(e)'
  <2>1. Conn(e)' = Conn(e)
    BY <1>1, <1>4, <1>7 DEF Conn
  <2>2. ConnInv(Conn(e), Role(e), Asked(e), Held(e), sent[e], Said(e), 0, 0)
    BY Now
  <2>3. /\ Role(e)' = Role(e) /\ Asked(e)' = Asked(e)
        /\ Held(e)' = Held(e) /\ sent'[e] = sent[e] /\ Said(e)' = Said(e)
    BY <1>7
  <2> QED
    BY <2>1, <2>2, <2>3 DEF Kept
<1> QED
  BY <1>5, <1>6, <1>7

\* Removed() of any pcb, one that has not been accepted included.
LEMMA RemovedAlways ==
  ASSUME NEW x, NEW a \in Roles, NEW o \in 0 .. 1, NEW u \in 0 .. 1,
         NEW s \in Nat, NEW f \in 0 .. 1,
         ConnInv(x, a, o, u, s, f, 0, 0)
  PROVE  /\ ConnInv(Removed(x), a, o, u, s, f, 0, 0)
         /\ Removed(x).p = NoPcb /\ Removed(x).lost = x.lost
<1>1. CASE x.p.state # "syn"
  BY <1>1, RemovedKeeps
<1>2. CASE x.p.state = "syn"
  <2> DEFINE y == Removed(x)
  <2>1. x \in ConnType /\ x.p = NewPcb /\ x.n = NoNetconn /\ x.b \in Nat /\ a = "free"
    BY <1>2, Parts DEF ConnInv, PcbInv, NetconnInv
  <2>2. y = [x EXCEPT !.p = NoPcb, !.b = x.b - x.p.refused, !.n = x.n]
    BY <2>1, Blank DEF Removed
  <2>3. /\ y \in ConnType /\ y.p = NoPcb /\ y.n = NoNetconn /\ y.b = x.b /\ y.lost = x.lost
    <3>1. x.b - x.p.refused = x.b /\ NoPcb \in PcbType
      BY <2>1, Blank
    <3> HIDE DEF y
    <3> QED
      BY <2>1, <2>2, <3>1 DEF ConnType
  <2> HIDE DEF y
  <2>4. NetconnInv(y.n, a, o)
    BY <2>1, <2>3 DEF ConnInv
  <2>5. PcbInv(y.p, y.n, f, 0, 0)
    BY <2>3, Blank DEF PcbInv
  <2>6. CountInv(y, a, o, u, s, f, 0, 0)
    BY <2>1, <2>3, Blank DEF ConnInv, CountInv
  <2>7. EarlyInv(y, a, s, f, 0, 0)
    BY <2>1 DEF EarlyInv, Early
  <2> QED
    BY <2>3, <2>4, <2>5, <2>6, <2>7 DEF ConnInv, y
<1> QED
  BY <1>1, <1>2

\* A step of one connection alone.
LEMMA AloneKeeps ==
  ASSUME IInv, NEW c \in Conns, NEW S, Becomes(c, S),
         acceptmbox' = acceptmbox, at' = at, serving' = serving, buf' = buf,
         part' = part, posted' = posted, leaked' \in 0 .. PoolSize,
         sent' \in [Conns -> 0 .. MaxSegs], fin' \in [Conns -> BOOLEAN],
         \A e \in Conns \ {c} : sent'[e] = sent[e] /\ fin'[e] = fin[e],
         \A x \in S : ConnInv(x, Role(c), Asked(c), Held(c), sent'[c], Said(c)', 0, 0),
         \A x \in S : x.p.state = "syn" => sent'[c] = 0 /\ ~fin'[c]
  PROVE  IInv'
<1>1. \A e \in Conns : Role(e)' = Role(e) /\ Asked(e)' = Asked(e) /\ Held(e)' = Held(e)
  BY DEF Role, Asked, Held, Queued
<1>2. \A e \in Conns \ {c} : Said(e)' = Said(e)
  BY DEF Said
<1>3. /\ pcb' \in [Conns -> PcbType] /\ netconn' \in [Conns -> NetconnType]
      /\ pbufs' \in [Conns -> Nat]
      /\ \A e \in Conns : Kept(e)'
  <2>1. \A x \in S : ConnInv(x, Role(c)', Asked(c)', Held(c)', sent'[c], Said(c)', 0, 0)
    BY <1>1
  <2>2. \A e \in Conns \ {c} : /\ Role(e)' = Role(e) /\ Asked(e)' = Asked(e)
                               /\ Held(e)' = Held(e) /\ sent'[e] = sent[e] /\ Said(e)' = Said(e)
    BY <1>1, <1>2
  <2> QED
    BY <2>1, <2>2, OneKeeps
<1>4. ThreadInv' /\ AcceptInv'
  BY DEF IInv, ThreadInv, AcceptInv
<1>5. Unheard'
  <2>1. PICK x \in S : pcb' = [pcb EXCEPT ![c] = x.p]
    BY DEF Becomes
  <2>2. pcb \in [Conns -> PcbType]
    BY DEF IInv
  <2>3. pcb'[c].state = "syn" => sent'[c] = 0 /\ ~fin'[c]
    BY <2>1, <2>2
  <2>4. \A e \in Conns \ {c} : pcb'[e] = pcb[e]
    BY <2>1, <2>2
  <2> QED
    BY <2>3, <2>4 DEF IInv, Unheard
<1> QED
  BY <1>3, <1>4, <1>5 DEF IInv

\* A step of one connection that tells nothing of its client.
LEMMA QuietKeeps ==
  ASSUME IInv, NEW c \in Conns, NEW S, Becomes(c, S),
         UNCHANGED <<acceptmbox, web, sent, fin>>,
         \A x \in S : ConnInv(x, Role(c), Asked(c), Held(c), sent[c], Said(c), 0, 0),
         \A x \in S : x.lost = 0 /\ (x.p.state = "syn" => pcb[c].state = "syn")
  PROVE  IInv'
<1>1. leaked' = leaked
  <2>1. leaked \in 0 .. PoolSize
    BY DEF IInv
  <2>2. PICK x \in S : leaked' = leaked + x.lost
    BY DEF Becomes
  <2> QED
    BY <2>1, <2>2
<1>2. \A x \in S : x.p.state = "syn" => sent[c] = 0 /\ ~fin[c]
  BY DEF IInv, Unheard
<1>3. /\ acceptmbox' = acceptmbox /\ at' = at /\ serving' = serving /\ buf' = buf
      /\ part' = part /\ posted' = posted /\ sent' = sent /\ fin' = fin
  BY DEF web
<1>4. /\ leaked' \in 0 .. PoolSize
      /\ sent' \in [Conns -> 0 .. MaxSegs] /\ fin' \in [Conns -> BOOLEAN]
  BY <1>1, <1>3 DEF IInv
<1>5. \A x \in S : ConnInv(x, Role(c), Asked(c), Held(c), sent'[c], Said(c)', 0, 0)
  BY <1>3 DEF Said
<1>6. \A x \in S : x.p.state = "syn" => sent'[c] = 0 /\ ~fin'[c]
  BY <1>2, <1>3
<1> QED
  BY <1>3, <1>4, <1>5, <1>6, AloneKeeps

\* Reset, SlowTimer: the pcb is removed.
LEMMA RemovalKeeps ==
  ASSUME IInv, NEW c \in Conns, Becomes(c, {Removed(Conn(c))}),
         UNCHANGED <<acceptmbox, web, sent, fin>>
  PROVE  IInv'
<1>1. Role(c) \in Roles /\ Asked(c) \in 0 .. 1 /\ Held(c) \in 0 .. 1 /\ Said(c) \in 0 .. 1
  BY RoleTypes DEF IInv
<1>2. ConnInv(Conn(c), Role(c), Asked(c), Held(c), sent[c], Said(c), 0, 0)
      /\ Conn(c).lost = 0 /\ sent[c] \in Nat
  BY Now
<1>3. /\ ConnInv(Removed(Conn(c)), Role(c), Asked(c), Held(c), sent[c], Said(c), 0, 0)
      /\ Removed(Conn(c)).p = NoPcb /\ Removed(Conn(c)).lost = Conn(c).lost
  BY <1>1, <1>2, RemovedAlways
<1>4. Removed(Conn(c)).p.state = "free" /\ Removed(Conn(c)).lost = 0
  BY <1>2, <1>3, Blank
<1> QED
  BY <1>3, <1>4, QuietKeeps

\* tcp_fasttmr(): refused data and a refused FIN are offered again.
LEMMA FastTimerStep ==
  ASSUME IInv, NEW c \in Conns, FastTimer(c)
  PROVE  IInv'
<1> DEFINE x == Conn(c)
           y == [x EXCEPT !.p.closePend = FALSE]
           S == IF x.p.closePend THEN {r.x : r \in SendFin(y)} ELSE {y}
<1>1. Role(c) \in Roles /\ Asked(c) \in 0 .. 1 /\ Held(c) \in 0 .. 1 /\ Said(c) \in 0 .. 1
  BY RoleTypes DEF IInv
<1>2. ConnInv(x, Role(c), Asked(c), Held(c), sent[c], Said(c), 0, 0)
      /\ x.lost = 0 /\ sent[c] \in Nat /\ x.p = pcb[c]
  BY Now
<1>3. Becomes(c, {Retry(z) : z \in S}) /\ UNCHANGED <<acceptmbox, web, sent, fin>>
  BY <1>2 DEF FastTimer
<1>4. \A z \in S : /\ ConnInv(Retry(z), Role(c), Asked(c), Held(c), sent[c], Said(c), 0, 0)
                   /\ Retry(z).lost = x.lost
                   /\ x.p.state # "syn" => Retry(z).p.state # "syn"
  <2> HIDE DEF x
  <2> QED
    BY <1>1, <1>2, FastTimerKeeps
<1> HIDE DEF x, S
<1>5. \A w \in {Retry(z) : z \in S} :
        /\ ConnInv(w, Role(c), Asked(c), Held(c), sent[c], Said(c), 0, 0)
        /\ w.lost = 0 /\ (w.p.state = "syn" => pcb[c].state = "syn")
  BY <1>2, <1>4
<1> QED
  BY <1>3, <1>5, QuietKeeps

\* tcp_slowtmr() calls poll_tcp().
LEMMA PollStep ==
  ASSUME IInv, NEW c \in Conns, Poll(c)
  PROVE  IInv'
<1>1. Role(c) \in Roles /\ Asked(c) \in 0 .. 1 /\ Held(c) \in 0 .. 1 /\ Said(c) \in 0 .. 1
  BY RoleTypes DEF IInv
<1>2. ConnInv(Conn(c), Role(c), Asked(c), Held(c), sent[c], Said(c), 0, 0)
      /\ Conn(c).lost = 0 /\ sent[c] \in Nat /\ Conn(c).p = pcb[c]
  BY Now
<1>3. Becomes(c, Polled(Conn(c))) /\ UNCHANGED <<acceptmbox, web, sent, fin>> /\ Conn(c).p.owned
  BY <1>2 DEF Poll
<1>4. \A y \in Polled(Conn(c)) :
        /\ ConnInv(y, Role(c), Asked(c), Held(c), sent[c], Said(c), 0, 0) /\ y.lost = Conn(c).lost
        /\ y.p.state # "syn"
  BY <1>1, <1>2, <1>3, PolledKeeps
<1> QED
  BY <1>2, <1>3, <1>4, QuietKeeps

\* A frame finds a free pbuf, so a leaked one leaves the count in the pool.
LEMMA FrameLeavesRoom ==
  ASSUME Frame, leaked \in 0 .. PoolSize
  PROVE  leaked + 1 \in 0 .. PoolSize
<1>1. IsFiniteSet(Conns \X (1 .. MaxSegs))
  <2>1. IsFiniteSet(1 .. MaxSegs)
    BY Sizes, FS_Interval
  <2> QED
    BY <2>1, Sizes, FS_Product
<1>2. InUse \subseteq Conns \X (1 .. MaxSegs)
  BY DEF InUse
<1>3. Cardinality(InUse) \in Nat
  BY <1>1, <1>2, FS_Subset, FS_CardinalityType
<1> QED
  BY <1>3, Sizes DEF Frame

\* tcp_input() of a segment.
LEMMA SegmentStep ==
  ASSUME IInv, NEW c \in Conns, NEW d \in 0 .. 1, NEW told \in BOOLEAN,
         NEW ack \in {"none", "data", "all"}, Segment(c, d, told, ack)
  PROVE  IInv'
<1> DEFINE x == Conn(c)
           g == IF told THEN 1 ELSE 0
           t == sent[c] + d
           e == Said(c) + g
<1>1. Role(c) \in Roles /\ Asked(c) \in 0 .. 1 /\ Held(c) \in 0 .. 1 /\ Said(c) \in 0 .. 1
  BY RoleTypes DEF IInv
<1>2. /\ ConnInv(x, Role(c), Asked(c), Held(c), sent[c], Said(c), 0, 0)
      /\ x.lost = 0 /\ sent[c] \in Nat /\ x.p = pcb[c]
  BY Now
<1>3. /\ Frame /\ pcb[c].state \in Active /\ pcb[c].state # "syn" /\ sent[c] + d <= MaxSegs
      /\ d > 0 \/ told => ~fin[c] /\ Retry(x).p.refused = 0
      /\ Becomes(c, Input(x, d, told, ack))
      /\ sent' = [sent EXCEPT ![c] = @ + d]
      /\ fin' = [fin EXCEPT ![c] = @ \/ told]
      /\ UNCHANGED <<acceptmbox, web>>
  BY DEF Segment
<1>4. sent \in [Conns -> 0 .. MaxSegs] /\ fin \in [Conns -> BOOLEAN] /\ leaked \in 0 .. PoolSize
  BY DEF IInv
<1>5. g \in 0 .. 1 /\ (told <=> g = 1)
  OBVIOUS
<1>6. d + g > 0 => Said(c) = 0 /\ Retry(x).p.refused = 0
  BY <1>3, <1>5 DEF Said
<1>7. t \in Nat /\ t = sent[c] + d /\ e \in 0 .. 1 /\ e = Said(c) + g
  BY <1>1, <1>2, <1>5, <1>6
<1>8. /\ sent' \in [Conns -> 0 .. MaxSegs] /\ sent'[c] = t
      /\ \A q \in Conns \ {c} : sent'[q] = sent[q]
  BY <1>3, <1>4, <1>7, Sizes
<1>9. /\ fin' \in [Conns -> BOOLEAN]
      /\ \A q \in Conns \ {c} : fin'[q] = fin[q]
  BY <1>3, <1>4
<1>10. Said(c)' = e
  <2>1. CASE told
    <3>1. fin' = [fin EXCEPT ![c] = TRUE]
      BY <1>3, <2>1
    <3>2. fin'[c]
      BY <1>4, <3>1
    <3>3. ~fin[c]
      BY <1>3, <2>1
    <3> QED
      BY <2>1, <3>2, <3>3 DEF Said
  <2>2. CASE ~told
    <3>1. fin' = [fin EXCEPT ![c] = fin[c]]
      BY <1>3, <1>4, <2>2
    <3>2. fin'[c] = fin[c]
      BY <1>4, <3>1
    <3> QED
      BY <1>1, <2>2, <3>2 DEF Said
  <2> QED
    BY <2>1, <2>2
<1> HIDE DEF x, g, t, e
<1>11. \A w \in Input(x, d, told, ack) :
         /\ ConnInv(w, Role(c), Asked(c), Held(c), t, e, 0, 0)
         /\ w.lost \in 0 .. 1 /\ w.p.state # "syn"
  <2>1. x.p.state \in Active /\ x.p.state # "syn"
    BY <1>2, <1>3
  <2>2. Fits(x, Role(c), Asked(c), Held(c), sent[c], Said(c), 0, 0)
    BY <1>1, <1>2 DEF Fits
  <2>3. Retry(x).p.state = x.p.state
    BY <2>2, RetryFits
  <2>4. Takes(Retry(x), Said(c), d, g, told)
    BY <1>5, <1>6, <2>1, <2>3 DEF Takes
  <2>5. \A w \in Input(x, d, told, ack) :
          /\ Fits(w, Role(c), Asked(c), Held(c), sent[c] + d, Said(c) + g, 0, 0)
          /\ w.lost \in 0 .. 1 /\ w.p.state # "syn"
    BY <1>2, <2>2, <2>4, InputKeeps
  <2> QED
    BY <1>7, <2>5 DEF Fits
<1>12. leaked' \in 0 .. PoolSize
  <2>1. PICK w \in Input(x, d, told, ack) : leaked' = leaked + w.lost
    BY <1>3 DEF Becomes
  <2>2. w.lost \in 0 .. 1
    BY <1>11
  <2>3. leaked + 1 \in 0 .. PoolSize
    BY <1>3, <1>4, FrameLeavesRoom
  <2> QED
    BY <1>4, <2>1, <2>2, <2>3, Sizes
<1>13. \A w \in Input(x, d, told, ack) :
         ConnInv(w, Role(c), Asked(c), Held(c), sent'[c], Said(c)', 0, 0)
  BY <1>8, <1>10, <1>11
<1>14. /\ acceptmbox' = acceptmbox /\ at' = at /\ serving' = serving /\ buf' = buf
       /\ part' = part /\ posted' = posted
  BY <1>3 DEF web
<1>15. \A q \in Conns \ {c} : sent'[q] = sent[q] /\ fin'[q] = fin[q]
  BY <1>8, <1>9
<1>16. \A w \in Input(x, d, told, ack) : w.p.state = "syn" => sent'[c] = 0 /\ ~fin'[c]
  BY <1>11
<1>17. sent' \in [Conns -> 0 .. MaxSegs] /\ fin' \in [Conns -> BOOLEAN]
  BY <1>8, <1>9
<1>18. Becomes(c, Input(x, d, told, ack))
  BY <1>3
<1> QED
  BY <1>12, <1>13, <1>14, <1>15, <1>16, <1>17, <1>18, AloneKeeps

\* tcp_input() of a RST.
LEMMA ResetStep ==
  ASSUME IInv, NEW c \in Conns, Reset(c)
  PROVE  IInv'
BY RemovalKeeps DEF Reset

\* tcp_slowtmr() drops a connection that has waited too long.
LEMMA SlowTimerStep ==
  ASSUME IInv, NEW c \in Conns, SlowTimer(c)
  PROVE  IInv'
BY RemovalKeeps DEF SlowTimer

\* tcpip_thread finds the request of the web thread and the connection it is for.
LEMMA PostedNow ==
  ASSUME IInv, NEW op \in Asking, at = op, posted
  PROVE  /\ serving \in Conns /\ Role(serving) = op /\ Asked(serving) = 1
         /\ Held(serving) \in 0 .. 1 /\ Said(serving) \in 0 .. 1 /\ sent[serving] \in Nat
         /\ ConnInv(Conn(serving), op, 1, Held(serving), sent[serving], Said(serving), 0, 0)
         /\ Conn(serving).lost = 0
<1>1. serving \in Conns
  BY DEF IInv, ThreadInv, Asking
<1>2. Role(serving) = op /\ Asked(serving) = 1
  BY DEF Role, Asked
<1>3. ConnInv(Conn(serving), Role(serving), Asked(serving), Held(serving), sent[serving],
              Said(serving), 0, 0)
  BY <1>1, Now
<1>4. Conn(serving).lost = 0 /\ sent[serving] \in Nat
  BY <1>1, Now
<1>5. Held(serving) \in 0 .. 1 /\ Said(serving) \in 0 .. 1
  BY <1>1, RoleTypes DEF IInv
<1> QED
  BY <1>1, <1>2, <1>3, <1>4, <1>5

\* A request that tcpip_thread has handled.
LEMMA HandledKeeps ==
  ASSUME IInv, NEW op \in Asking, NEW S, Handle(op, S),
         \A x \in S : /\ ConnInv(x, op, 0, Held(serving), sent[serving], Said(serving), 0, 0)
                      /\ x.lost = 0
  PROVE  IInv'
<1>1. /\ at = op /\ posted /\ posted' = FALSE /\ Becomes(serving, S)
      /\ acceptmbox' = acceptmbox /\ at' = at /\ serving' = serving /\ buf' = buf
      /\ part' = part /\ sent' = sent /\ fin' = fin
  BY DEF Handle
<1>2. serving \in Conns /\ Role(serving) = op
  BY <1>1, PostedNow
<1> PICK c \in Conns : c = serving
  BY <1>2
<1>3. \A e \in Conns : Role(e)' = Role(e) /\ Held(e)' = Held(e) /\ Said(e)' = Said(e)
  BY <1>1 DEF Role, Held, Queued, Said
<1>4. \A e \in Conns : Asked(e)' = 0
  BY <1>1 DEF Asked
<1>5. \A e \in Conns \ {serving} : Asked(e) = 0
  BY DEF Asked
<1>6. /\ pcb' \in [Conns -> PcbType] /\ netconn' \in [Conns -> NetconnType]
      /\ pbufs' \in [Conns -> Nat]
      /\ \A e \in Conns : Kept(e)'
  <2>2. \A e \in Conns \ {c} :
          /\ Role(e)' = Role(e) /\ Asked(e)' = Asked(e)
          /\ Held(e)' = Held(e) /\ sent'[e] = sent[e] /\ Said(e)' = Said(e)
    BY <1>1, <1>3, <1>4, <1>5
  <2>3. Becomes(c, S)
    BY <1>1
  <2>4. \A x \in S : ConnInv(x, Role(c)', Asked(c)', Held(c)', sent'[c], Said(c)', 0, 0)
    <3>1. /\ Role(c)' = op /\ Held(c)' = Held(serving) /\ sent'[c] = sent[serving]
          /\ Said(c)' = Said(serving) /\ Asked(c)' = 0
      BY <1>1, <1>2, <1>3, <1>4
    <3> QED
      BY <3>1
  <2> QED
    BY <2>2, <2>3, <2>4, OneKeeps
<1>7. ThreadInv' /\ AcceptInv'
  BY <1>1 DEF IInv, ThreadInv, AcceptInv
<1>8. PICK x \in S : pcb' = [pcb EXCEPT ![serving] = x.p] /\ leaked' = leaked + x.lost
  BY <1>1 DEF Becomes
<1>9. leaked' = leaked
  BY <1>8 DEF IInv
<1>10. Unheard'
  <2>1. pcb \in [Conns -> PcbType]
    BY DEF IInv
  <2>2. x.p.state # "syn"
    <3>1. NetconnInv(x.n, op, 0) /\ PcbInv(x.p, x.n, Said(serving), 0, 0)
      BY DEF ConnInv
    <3>2. op # "free"
      BY DEF Asking
    <3> QED
      BY <3>1, <3>2 DEF NetconnInv, PcbInv
  <2>3. \A e \in Conns : pcb'[e].state = "syn" => pcb[e].state = "syn"
    BY <1>2, <1>8, <2>1, <2>2
  <2> QED
    BY <1>1, <2>3 DEF IInv, Unheard
<1> QED
  BY <1>1, <1>6, <1>7, <1>9, <1>10 DEF IInv

\* do_recv().
LEMMA DoRecvStep ==
  ASSUME IInv, DoRecv
  PROVE  IInv'
<1> DEFINE x == Conn(serving)
           u == Held(serving)
<1>1. "recved" \in Asking
  BY DEF Asking
<1>2. at = "recved" /\ posted
  BY DEF DoRecv, Handle
<1>3. /\ ConnInv(x, "recved", 1, u, sent[serving], Said(serving), 0, 0) /\ x.lost = 0
      /\ u \in 0 .. 1 /\ Said(serving) \in 0 .. 1 /\ sent[serving] \in Nat
  BY <1>1, <1>2, PostedNow
<1>4. Handle("recved", Acked(Recved(x, u)))
  <2>1. u = IF buf = "data" THEN 1 ELSE 0
    BY DEF Held
  <2> QED
    BY <2>1 DEF DoRecv
<1> HIDE DEF x
<1>5. \A y \in Acked(Recved(x, u)) :
        ConnInv(y, "recved", 0, u, sent[serving], Said(serving), 0, 0) /\ y.lost = x.lost
  BY <1>1, <1>3, RecvedKeeps
<1> QED
  BY <1>1, <1>3, <1>4, <1>5, HandledKeeps

\* do_close() of one or both directions.
LEMMA DoCloseStep ==
  ASSUME IInv, NEW op \in Asking, NEW how, DoClose(op, how),
         \/ op = "close" /\ how = "rdwr"
         \/ op = "shut" /\ how = "rd"
  PROVE  IInv'
<1> DEFINE x == Conn(serving)
           u == Held(serving)
           y == Closing(Drain(x), how)
           S == IF ~x.n.pcb \/ x.n.state = "write" THEN Acked(x) ELSE CloseInternal(y)
<1>1. at = op /\ posted /\ Handle(op, S)
  BY DEF DoClose, Handle
<1>2. /\ ConnInv(x, op, 1, u, sent[serving], Said(serving), 0, 0) /\ x.lost = 0
      /\ u \in 0 .. 1 /\ Said(serving) \in 0 .. 1 /\ sent[serving] \in Nat
  BY <1>1, PostedNow
<1> HIDE DEF x, u
<1>3. x.n.state = "none"
  BY <1>2, PostedIs
<1>4. CASE ~x.n.pcb
  <2>1. S = Acked(x)
    BY <1>4
  <2>2. \A z \in Acked(x) : ConnInv(z, op, 0, u, sent[serving], Said(serving), 0, 0) /\ z.lost = x.lost
    <3>1. op # "recved" /\ (op \in {"close", "delete"} => ~x.n.pcb) /\ (op = "delete" => ~x.n.valid)
      BY <1>4
    <3> QED
      BY <1>2, <3>1, AckedKeeps
  <2> QED
    BY <1>1, <1>2, <2>1, <2>2, HandledKeeps DEF u
<1>5. CASE x.n.pcb
  <2>1. S = CloseInternal(y)
    BY <1>3, <1>5
  <2>2. PreClose(y, op, u, sent[serving], Said(serving), 0) /\ y.lost = x.lost
    <3>1. \/ op \in {"close", "delete"} /\ how = "rdwr"
          \/ op = "shut" /\ how = "rd"
      OBVIOUS
    <3> QED
      BY <1>2, <1>5, <3>1, DrainedIsPreClose
  <2>3. op \in Roles
    BY DEF Roles
  <2> HIDE DEF y
  <2>4. \A z \in CloseInternal(y) :
          ConnInv(z, op, 0, u, sent[serving], Said(serving), 0, 0) /\ z.lost = y.lost
    BY <1>2, <2>2, <2>3, CloseInternalKeeps
  <2> QED
    BY <1>1, <1>2, <2>1, <2>2, <2>4, HandledKeeps DEF u
<1> QED
  BY <1>4, <1>5

\* do_write().
LEMMA DoWriteStep ==
  ASSUME IInv, DoWrite
  PROVE  IInv'
<1> DEFINE x == Conn(serving)
           u == Held(serving)
<1>1. "write" \in Asking
  BY DEF Asking
<1>2. PICK len \in IF part = "header" THEN {1} ELSE 1 .. BodyLen :
        Handle("write",
          IF x.n.fatal \/ x.n.state # "none" \/ ~x.n.pcb THEN Acked(x)
          ELSE WriteMore(Writing(x, len)))
  BY DEF DoWrite
<1>3. at = "write" /\ posted
  BY <1>2 DEF Handle
<1>4. /\ ConnInv(x, "write", 1, u, sent[serving], Said(serving), 0, 0) /\ x.lost = 0
      /\ u \in 0 .. 1 /\ Said(serving) \in 0 .. 1 /\ sent[serving] \in Nat
  BY <1>1, <1>3, PostedNow
<1>5. len \in Lengths
  BY Sizes DEF Lengths
<1> HIDE DEF x, u
<1> DEFINE y == Writing(x, len)
           S == IF x.n.fatal \/ x.n.state # "none" \/ ~x.n.pcb THEN Acked(x) ELSE WriteMore(y)
<1>6. \A z \in Acked(x) : ConnInv(z, "write", 0, u, sent[serving], Said(serving), 0, 0) /\ z.lost = x.lost
  BY <1>1, <1>4, AckedKeeps
<1>7. x.n.pcb => \A z \in WriteMore(y) :
                   ConnInv(z, "write", 0, u, sent[serving], Said(serving), 0, 0) /\ z.lost = x.lost
  BY <1>1, <1>4, <1>5, WriteKeeps
<1> HIDE DEF y
<1>8. \A z \in S : ConnInv(z, "write", 0, u, sent[serving], Said(serving), 0, 0) /\ z.lost = 0
  BY <1>4, <1>6, <1>7
<1>9. Handle("write", S)
  BY <1>2 DEF y
<1> HIDE DEF S
<1> QED
  BY <1>1, <1>8, <1>9, HandledKeeps DEF u

\* do_delconn().
LEMMA DoDeleteStep ==
  ASSUME IInv, DoDelete
  PROVE  IInv'
<1> DEFINE x == Conn(serving)
           u == Held(serving)
           z == Drain(x)
           y == Closing(z, "rdwr")
<1>1. "delete" \in Asking /\ "delete" \in Roles
  BY DEF Asking, Roles
<1>2. at = "delete" /\ posted
  BY DEF DoDelete, Handle
<1>3. /\ ConnInv(x, "delete", 1, u, sent[serving], Said(serving), 0, 0) /\ x.lost = 0
      /\ u \in 0 .. 1 /\ Said(serving) \in 0 .. 1 /\ sent[serving] \in Nat
      /\ serving \in Conns
  BY <1>1, <1>2, PostedNow
<1>4. x.n = netconn[serving]
  BY DEF Conn
<1>5. Handle("delete", IF x.n.state # "none" THEN Acked(x)
                       ELSE IF ~z.n.pcb THEN Acked(z) ELSE CloseInternal(y))
  BY <1>4 DEF DoDelete
<1> HIDE DEF x, u
<1>6. x.n.state = "none"
  BY <1>1, <1>3, PostedIs
<1>7. Drained(x, u, sent[serving], Said(serving), z)
  BY <1>1, <1>3, DrainIs
<1>8. z.n.pcb = x.n.pcb
  BY <1>7 DEF Drained
<1>9. CASE ~x.n.pcb
  <2>1. Handle("delete", Acked(z))
    BY <1>5, <1>6, <1>8, <1>9
  <2>2. /\ ConnInv(z, "delete", 1, u, sent[serving], Said(serving), 0, 0)
        /\ ~z.n.pcb /\ ~z.n.valid /\ z.lost = x.lost
    BY <1>1, <1>3, <1>9, DrainKeeps
  <2> HIDE DEF z
  <2>3. \A w \in Acked(z) : ConnInv(w, "delete", 0, u, sent[serving], Said(serving), 0, 0) /\ w.lost = z.lost
    BY <1>1, <1>3, <2>2, AckedKeeps
  <2> QED
    BY <1>1, <1>3, <2>1, <2>2, <2>3, HandledKeeps DEF u
<1>10. CASE x.n.pcb
  <2>1. Handle("delete", CloseInternal(y))
    BY <1>5, <1>6, <1>8, <1>10
  <2>2. PreClose(y, "delete", u, sent[serving], Said(serving), 0) /\ y.lost = x.lost
    BY <1>1, <1>3, <1>10, DrainedIsPreClose
  <2> HIDE DEF y
  <2>3. \A w \in CloseInternal(y) :
          ConnInv(w, "delete", 0, u, sent[serving], Said(serving), 0, 0) /\ w.lost = y.lost
    BY <1>1, <1>3, <2>2, CloseInternalKeeps
  <2> QED
    BY <1>1, <1>3, <2>1, <2>2, <2>3, HandledKeeps DEF u
<1> QED
  BY <1>9, <1>10

\* Whatever request tcpip_thread takes.
LEMMA RequestsStep ==
  ASSUME IInv, Requests
  PROVE  IInv'
<1>1. ASSUME DoShut
      PROVE  IInv'
  BY <1>1, DoCloseStep DEF DoShut, Asking
<1>2. ASSUME DoCloseAll
      PROVE  IInv'
  BY <1>2, DoCloseStep DEF DoCloseAll, Asking
<1> QED
  BY <1>1, <1>2, DoRecvStep, DoWriteStep, DoDeleteStep DEF Requests

-----------------------------------------------------------------------------
(* The web thread.                                                         *)

\* From where it is served early on, a connection may go anywhere early or be
\* asked to close.
LEMMA EarlyKeeps ==
  ASSUME NEW x, NEW a \in Early, NEW b, NEW o \in 0 .. 1, NEW u \in 0 .. 1,
         NEW s \in Nat, NEW f \in 0 .. 1, ConnInv(x, a, 0, u, s, f, 0, 0),
         \/ b \in Early /\ o = 0
         \/ b = "close" /\ o = 1
  PROVE  ConnInv(x, b, o, u, s, f, 0, 0)
<1>1. /\ a \notin Asking /\ a # "free" /\ b # "free" /\ a # "recved" /\ b # "recved"
      /\ a \notin {"write", "close", "delete", "shut"} /\ b \notin {"delete", "write", "shut"}
  BY DEF Early, Asking
<1>2. NetconnInv(x.n, b, o)
  <2>1. /\ x.n # NoNetconn /\ x.n.used /\ ~x.n.msg /\ x.n.done = 0 /\ x.n.valid
        /\ Len(x.n.recvmbox) <= RecvSize /\ x.n.state = "none"
    BY <1>1 DEF ConnInv, NetconnInv
  <2>2. b \in Early => b \notin Asking /\ b # "close"
    BY DEF Early, Asking
  <2> QED
    BY <1>1, <2>1, <2>2 DEF NetconnInv
<1>3. CountInv(x, b, o, u, s, f, 0, 0)
  <2>1. Due(a, 0, u) = 0 /\ Due(b, o, u) = 0
    BY <1>1 DEF Due
  <2> QED
    BY <2>1 DEF ConnInv, CountInv
<1>4. EarlyInv(x, b, s, f, 0, 0)
  BY DEF ConnInv, EarlyInv, Early
<1> QED
  BY <1>2, <1>3, <1>4 DEF ConnInv

\* The head of the mailbox is with the web thread, tcp_recved() to come.
LEMMA FetchKeeps ==
  ASSUME NEW x, NEW a \in Early, NEW s \in Nat, NEW f \in 0 .. 1,
         ConnInv(x, a, 0, 0, s, f, 0, 0), x.n.recvmbox # <<>>,
         NEW y \in ConnType, y.p = x.p, y.b = x.b, y.lost = x.lost,
         y.n = [x.n EXCEPT !.recvmbox = Tail(@)],
         NEW u \in 0 .. 1, u = Bit(Head(x.n.recvmbox) = "data")
  PROVE  ConnInv(y, "recved", 1, u, s, f, 0, 0)
<1>1. /\ a \notin Asking /\ a # "free" /\ a # "recved"
      /\ a \notin {"write", "close", "delete", "shut"}
  BY DEF Early, Asking
<1>2. /\ x \in ConnType /\ x.n \in NetconnType /\ x.n.recvmbox \in Seq(MailType)
      /\ x.p.refused \in 0 .. 1 /\ Bit(x.p.refusedFin) \in 0 .. 1
      /\ x.p.unread \in Nat /\ x.b \in Nat
  BY Parts DEF ConnInv
<1>3. /\ y.n.used = x.n.used /\ y.n.pcb = x.n.pcb /\ y.n.valid = x.n.valid
      /\ y.n.msg = x.n.msg /\ y.n.done = x.n.done /\ y.n.state = x.n.state
      /\ y.n.recvmbox = Tail(x.n.recvmbox)
  BY <1>2 DEF NetconnType
<1> DEFINE t == Tail(x.n.recvmbox)
           k == DataIn(x.n.recvmbox)
<1>4. /\ t \in Seq(MailType) /\ k = DataIn(t) + u
      /\ Len(t) = Len(x.n.recvmbox) - 1 /\ Len(x.n.recvmbox) \in Nat \ {0}
  BY <1>2, DataInTail
<1>5. /\ x.n # NoNetconn /\ x.n.used /\ ~x.n.msg /\ x.n.done = 0 /\ x.n.valid
      /\ Len(x.n.recvmbox) <= RecvSize /\ x.n.state = "none"
  BY <1>1 DEF ConnInv, NetconnInv
<1>6. DataIn(t) \in Nat
  BY <1>4, PlacesFinite
<1>7. NetconnInv(y.n, "recved", 1)
  <2>1. y.n # NoNetconn
    BY <1>3, <1>5, Blank
  <2>2. Len(t) <= RecvSize
    BY <1>4, <1>5, Sizes
  <2>3. Len(y.n.recvmbox) <= RecvSize
    BY <1>3, <2>2
  <2> QED
    BY <1>3, <1>5, <2>1, <2>3 DEF NetconnInv, Early, Asking
<1>8. PcbInv(y.p, y.n, f, 0, 0)
  <2>1. y.p.state # "syn"
    BY <1>5 DEF ConnInv, PcbInv
  <2> QED
    BY <1>3, <2>1 DEF ConnInv, PcbInv
<1>9. CountInv(y, "recved", 1, u, s, f, 0, 0)
  <2>1. Due(a, 0, 0) = 0 /\ Due("recved", 1, u) = u
    BY DEF Due
  <2>2. /\ x.b = x.p.refused + k + 0 + 0 /\ x.b <= s /\ x.p.unread <= s + f
        /\ x.p.owned /\ ~x.p.rxClosed =>
             x.p.unread = x.p.refused + Bit(x.p.refusedFin) + k + 0 + 0 + 0
    BY <2>1 DEF ConnInv, CountInv
  <2>3. y.n.recvmbox = t
    BY <1>3
  <2> HIDE DEF t, k
  <2>4. y.b = y.p.refused + DataIn(t) + u + 0
    BY <1>2, <1>4, <1>6, <2>2
  <2>5. y.p.owned /\ ~y.p.rxClosed =>
          y.p.unread = y.p.refused + Bit(y.p.refusedFin) + DataIn(t) + u + 0 + 0
    BY <1>2, <1>4, <1>6, <2>2
  <2> QED
    BY <2>1, <2>2, <2>3, <2>4, <2>5 DEF CountInv
<1>10. EarlyInv(y, "recved", s, f, 0, 0)
  BY DEF EarlyInv, Early
<1> QED
  BY <1>7, <1>8, <1>9, <1>10 DEF ConnInv

\* The answer is taken and the next request posted; a pbuf may be freed.
LEMMA TakenKeeps ==
  ASSUME NEW x, NEW a \in Asking, NEW b \in Asking \ {"recved"}, NEW u \in 0 .. 1,
         NEW s \in Nat, NEW f \in 0 .. 1, ConnInv(x, a, 0, u, s, f, 0, 0), x.n.done = 1,
         b \in {"write", "shut"} => a \in {"recved", "write"},
         NEW y \in ConnType, y.p = x.p, y.lost = x.lost, y.n = [x.n EXCEPT !.done = 0],
         NEW v \in 0 .. u, y.b = x.b - u + v
  PROVE  ConnInv(y, b, 1, v, s, f, 0, 0)
<1>1. a # "free" /\ b # "free" /\ a \notin Early /\ b \notin Early /\ b # "recved"
  BY DEF Early, Asking
<1>2. /\ x \in ConnType /\ x.n \in NetconnType /\ DataIn(x.n.recvmbox) \in Nat
      /\ x.p.refused \in 0 .. 1 /\ x.b \in Nat /\ v \in 0 .. 1 /\ v <= u
  BY Parts DEF ConnInv
<1>3. /\ y.n.used = x.n.used /\ y.n.pcb = x.n.pcb /\ y.n.valid = x.n.valid
      /\ y.n.msg = x.n.msg /\ y.n.done = 0 /\ y.n.state = x.n.state
      /\ y.n.recvmbox = x.n.recvmbox
  BY <1>2, Values DEF NetconnType
<1>4. /\ x.n # NoNetconn /\ x.n.used /\ ~x.n.msg /\ x.n.state = "none"
      /\ Len(x.n.recvmbox) <= RecvSize
      /\ b \in {"write", "shut"} => x.n.valid
      /\ ~x.n.valid => x.n.recvmbox = <<>>
  BY <1>1 DEF ConnInv, NetconnInv
<1>5. NetconnInv(y.n, b, 1)
  <2>1. y.n # NoNetconn
    BY <1>3, <1>4, Blank
  <2> QED
    BY <1>1, <1>3, <1>4, <2>1 DEF NetconnInv
<1>6. PcbInv(y.p, y.n, f, 0, 0)
  <2>1. y.p.state # "syn"
    BY <1>4 DEF ConnInv, PcbInv
  <2> QED
    BY <1>3, <2>1 DEF ConnInv, PcbInv
<1>7. CountInv(y, b, 1, v, s, f, 0, 0)
  <2>1. Due(a, 0, u) = 0 /\ Due(b, 1, v) = 0
    BY <1>1 DEF Due
  <2>2. x.b = x.p.refused + DataIn(x.n.recvmbox) + u + 0 /\ x.b <= s
    BY DEF ConnInv, CountInv
  <2>3. y.b = y.p.refused + DataIn(y.n.recvmbox) + v + 0 /\ y.b <= s
    BY <1>2, <1>3, <2>2
  <2> QED
    BY <1>3, <2>1, <2>3 DEF ConnInv, CountInv
<1>8. EarlyInv(y, b, s, f, 0, 0)
  BY <1>1 DEF EarlyInv
<1> QED
  BY <1>5, <1>6, <1>7, <1>8 DEF ConnInv

\* netconn_delete() ends with a netconn that nothing knows any more.
LEMMA DeletedKeeps ==
  ASSUME NEW x, NEW a \in Asking, NEW s \in Nat, NEW f \in 0 .. 1,
         ConnInv(x, a, 0, 0, s, f, 0, 0), a = "delete", x.n.done = 1,
         NEW y \in ConnType, y.p = x.p, y.b = x.b, y.lost = x.lost, y.n = NoNetconn
  PROVE  x.n.state = "none" /\ ConnInv(y, "free", 0, 0, s, f, 0, 0)
<1>1. /\ x.n # NoNetconn /\ ~x.n.msg /\ x.n.state = "none" /\ ~x.n.pcb /\ ~x.n.valid
      /\ x.n.recvmbox = <<>>
  BY DEF ConnInv, NetconnInv, Asking
<1>2. NetconnInv(y.n, "free", 0)
  <2>1. Len(<<>>) <= RecvSize
    BY DataInEmpty, Sizes
  <2> QED
    BY <2>1, Blank DEF NetconnInv, Asking, Early
<1>3. PcbInv(y.p, y.n, f, 0, 0)
  BY <1>1, Blank DEF ConnInv, PcbInv
<1>4. CountInv(y, "free", 0, 0, s, f, 0, 0)
  <2>1. ~y.p.owned
    BY <1>1 DEF ConnInv, PcbInv
  <2>2. y.n.recvmbox = x.n.recvmbox
    BY <1>1, Blank
  <2> QED
    BY <2>1, <2>2 DEF ConnInv, CountInv
<1>5. EarlyInv(y, "free", s, f, 0, 0)
  BY DEF EarlyInv, Early
<1> QED
  BY <1>1, <1>2, <1>3, <1>4, <1>5 DEF ConnInv

\* A step of the web thread on the connection it serves.
LEMMA ServedKeeps ==
  ASSUME IInv, NEW c \in Conns, serving = c, serving' = serving,
         acceptmbox' = acceptmbox, sent' = sent, fin' = fin, ThreadInv',
         NEW x, Becomes(c, {x}), x.lost = 0, x.p = pcb[c],
         NEW o \in 0 .. 1, posted' => o = 1, ~posted' => o = 0,
         NEW u \in 0 .. 1, buf' = "data" => u = 1, buf' # "data" => u = 0,
         ConnInv(x, at', o, u, sent[c], Said(c), 0, 0)
  PROVE  IInv'
<1>1. /\ Role(c)' = at' /\ Asked(c)' = o /\ Held(c)' = u
      /\ sent'[c] = sent[c] /\ Said(c)' = Said(c)
  BY DEF Role, Asked, Held, Said
<1>2. \A e \in Conns \ {c} : /\ Role(e)' = Role(e) /\ Asked(e)' = Asked(e)
                             /\ Held(e)' = Held(e) /\ sent'[e] = sent[e] /\ Said(e)' = Said(e)
  BY DEF Role, Asked, Held, Said, Queued
<1>3. \A y \in {x} : ConnInv(y, Role(c)', Asked(c)', Held(c)', sent'[c], Said(c)', 0, 0)
  <2>1. ConnInv(x, Role(c)', Asked(c)', Held(c)', sent'[c], Said(c)', 0, 0)
    BY <1>1
  <2> QED
    BY <2>1
<1>4. /\ pcb' \in [Conns -> PcbType] /\ netconn' \in [Conns -> NetconnType]
      /\ pbufs' \in [Conns -> Nat]
      /\ \A e \in Conns : Kept(e)'
  BY <1>2, <1>3, OneKeeps
<1>5. AcceptInv'
  BY DEF IInv, AcceptInv
<1>6. leaked' = leaked /\ pcb' = pcb
  BY DEF IInv, Becomes
<1>7. Unheard'
  BY <1>6 DEF IInv, Unheard
<1> QED
  BY <1>4, <1>5, <1>6, <1>7 DEF IInv

\* A connection that is what it was.
LEMMA StillBecomes ==
  ASSUME IInv, NEW c \in Conns, pcb' = pcb, netconn' = netconn, pbufs' = pbufs, leaked' = leaked
  PROVE  Becomes(c, {Conn(c)})
<1>1. /\ Conn(c).p = pcb[c] /\ Conn(c).n = netconn[c] /\ Conn(c).b = pbufs[c] /\ Conn(c).lost = 0
  BY DEF Conn
<1>2. /\ pcb \in [Conns -> PcbType] /\ netconn \in [Conns -> NetconnType]
      /\ pbufs \in [Conns -> Nat] /\ leaked \in 0 .. PoolSize
  BY DEF IInv
<1>3. /\ pcb' = [pcb EXCEPT ![c] = Conn(c).p] /\ netconn' = [netconn EXCEPT ![c] = Conn(c).n]
      /\ pbufs' = [pbufs EXCEPT ![c] = Conn(c).b] /\ leaked' = leaked + Conn(c).lost
  BY <1>1, <1>2
<1> QED
  BY <1>3 DEF Becomes

\* netconn_accept().
LEMMA AcceptStep ==
  ASSUME IInv, Accept
  PROVE  IInv'
<1>1. /\ at = "accept" /\ acceptmbox # <<>> /\ acceptmbox' = Tail(acceptmbox)
      /\ pcb' = pcb /\ netconn' = netconn /\ pbufs' = pbufs /\ leaked' = leaked
      /\ buf' = buf /\ part' = part /\ posted' = posted /\ sent' = sent /\ fin' = fin
  BY DEF Accept
<1>2. /\ serving = "nobody" /\ ~posted /\ buf # "data" /\ buf # "eof"
      /\ acceptmbox \in Seq(Conns) /\ Len(acceptmbox) <= AcceptSize
      /\ \A i, j \in 1 .. Len(acceptmbox) : acceptmbox[i] = acceptmbox[j] => i = j
  BY <1>1 DEF IInv, ThreadInv, AcceptInv, Asking
<1>3. PICK c \in Conns : c = Head(acceptmbox) /\ c = acceptmbox[1]
  BY <1>1, <1>2, HeadTailProperties
<1>4. at' = "check" /\ serving' = c
  BY <1>3, Sizes DEF Accept
<1> DEFINE t == Tail(acceptmbox)
<1>5. /\ t \in Seq(Conns) /\ Len(t) = Len(acceptmbox) - 1 /\ Len(acceptmbox) \in Nat \ {0}
      /\ \A i \in 1 .. Len(t) : t[i] = acceptmbox[i + 1]
  BY <1>1, <1>2, HeadTailProperties, EmptySeq, LenProperties
<1>6. Len(t) \in Nat
  BY <1>5
<1>7. \A i \in 1 .. Len(t) : t[i] # c
  BY <1>2, <1>3, <1>5
<1>8. AcceptInv'
  <2>1. Len(t) <= AcceptSize
    BY <1>2, <1>5, Sizes
  <2>2. ASSUME NEW i \in 1 .. Len(t), NEW j \in 1 .. Len(t), t[i] = t[j]
        PROVE  i = j
    <3>1. i + 1 \in 1 .. Len(acceptmbox) /\ j + 1 \in 1 .. Len(acceptmbox)
      BY <1>5
    <3>2. acceptmbox[i + 1] = acceptmbox[j + 1]
      BY <1>5, <2>2
    <3>3. i + 1 = j + 1
      BY <1>2, <3>1, <3>2
    <3> QED
      BY <1>6, <3>3
  <2>3. acceptmbox' = t
    BY <1>1
  <2> HIDE DEF t
  <2> QED
    BY <1>4, <1>5, <1>7, <2>1, <2>2, <2>3 DEF AcceptInv
<1>9. \A e \in Conns \ {c} : Queued(e)' <=> Queued(e)
  <2> SUFFICES ASSUME NEW e \in Conns \ {c}
               PROVE  Queued(e)' <=> Queued(e)
    OBVIOUS
  <2>1. acceptmbox' = t
    BY <1>1
  <2>2. ASSUME Queued(e)
        PROVE  Queued(e)'
    <3>1. PICK i \in 1 .. Len(acceptmbox) : acceptmbox[i] = e
      BY <2>2 DEF Queued
    <3>2. i # 1
      BY <1>3, <3>1
    <3>3. i - 1 \in 1 .. Len(t) /\ t[i - 1] = acceptmbox[i - 1 + 1]
      BY <1>5, <3>1, <3>2
    <3>4. t[i - 1] = e
      BY <3>1, <3>3
    <3> HIDE DEF t
    <3> QED
      BY <2>1, <3>3, <3>4 DEF Queued
  <2>3. ASSUME Queued(e)'
        PROVE  Queued(e)
    <3>1. PICK i \in 1 .. Len(t) : t[i] = e
      BY <2>1, <2>3 DEF Queued
    <3>2. i + 1 \in 1 .. Len(acceptmbox) /\ acceptmbox[i + 1] = e
      BY <1>5, <3>1
    <3> QED
      BY <3>2 DEF Queued
  <2> QED
    BY <2>2, <2>3
<1> HIDE DEF t
<1>10. Queued(c)
  BY <1>3, <1>5 DEF Queued
<1>11. /\ Role(c) = "queued" /\ Role(c)' = "check" /\ Asked(c) = 0 /\ Asked(c)' = 0
       /\ Held(c) = 0 /\ Held(c)' = 0
  <2>1. c # "nobody"
    BY Sizes
  <2> QED
    BY <1>1, <1>2, <1>4, <1>10, <2>1 DEF Role, Asked, Held
<1>12. \A e \in Conns \ {c} : /\ Role(e)' = Role(e) /\ Asked(e)' = Asked(e)
                              /\ Held(e)' = Held(e) /\ sent'[e] = sent[e] /\ Said(e)' = Said(e)
  <2>1. "nobody" \notin Conns
    BY Sizes
  <2> QED
    BY <1>1, <1>2, <1>4, <1>9, <2>1 DEF Role, Asked, Held, Said
<1>13. \A x \in {Conn(c)} : ConnInv(x, Role(c)', Asked(c)', Held(c)', sent'[c], Said(c)', 0, 0)
  <2>1. ConnInv(Conn(c), "queued", 0, 0, sent[c], Said(c), 0, 0) /\ sent[c] \in Nat
    BY <1>11, Now
  <2>2. Said(c) \in 0 .. 1 /\ "queued" \in Early /\ "check" \in Early
    BY RoleTypes DEF Early, IInv
  <2>3. ConnInv(Conn(c), "check", 0, 0, sent[c], Said(c), 0, 0)
    BY <2>1, <2>2, EarlyKeeps
  <2>4. Said(c)' = Said(c) /\ sent'[c] = sent[c]
    BY <1>1 DEF Said
  <2>5. ConnInv(Conn(c), Role(c)', Asked(c)', Held(c)', sent'[c], Said(c)', 0, 0)
    BY <1>11, <2>3, <2>4
  <2> QED
    BY <2>5
<1>14. /\ pcb' \in [Conns -> PcbType] /\ netconn' \in [Conns -> NetconnType]
       /\ pbufs' \in [Conns -> Nat]
       /\ \A e \in Conns : Kept(e)'
  <2>1. Becomes(c, {Conn(c)})
    BY <1>1, StillBecomes
  <2> QED
    BY <1>12, <1>13, <2>1, OneKeeps
<1>15. ThreadInv'
  <2>1. c # "nobody"
    BY Sizes
  <2> QED
    BY <1>1, <1>2, <1>4, <2>1 DEF IInv, ThreadInv
<1>16. Unheard'
  BY <1>1 DEF IInv, Unheard
<1> QED
  BY <1>1, <1>8, <1>14, <1>15, <1>16 DEF IInv

\* netconn_recv() looks whether there is a mailbox.
LEMMA CheckStep ==
  ASSUME IInv, Check
  PROVE  IInv'
<1>1. /\ at = "check" /\ pcb' = pcb /\ netconn' = netconn /\ pbufs' = pbufs /\ leaked' = leaked
      /\ acceptmbox' = acceptmbox /\ serving' = serving /\ buf' = buf /\ part' = part
      /\ sent' = sent /\ fin' = fin
      /\ \/ at' = "close" /\ posted' = TRUE
         \/ at' = "fetch" /\ posted' = posted
  BY DEF Check, Ask
<1>2. /\ serving \in Conns /\ ~posted /\ buf # "data" /\ buf # "eof"
  BY <1>1 DEF IInv, ThreadInv, Asking
<1> PICK c \in Conns : c = serving
  BY <1>2
<1>3. Role(c) = "check" /\ Asked(c) = 0 /\ Held(c) = 0
  BY <1>1, <1>2 DEF Role, Asked, Held
<1>4. /\ ConnInv(Conn(c), "check", 0, 0, sent[c], Said(c), 0, 0) /\ sent[c] \in Nat
      /\ Conn(c).lost = 0 /\ Conn(c).p = pcb[c]
  BY <1>3, Now
<1>5. /\ Said(c) \in 0 .. 1 /\ "check" \in Early /\ "fetch" \in Early
  BY RoleTypes DEF Early, IInv
<1>6. ThreadInv'
  <2>1. serving # "nobody" /\ buf' \in {"none", "data", "eof"} /\ part' \in {"none", "header", "body"}
    BY <1>1, <1>2, Sizes DEF IInv, ThreadInv
  <2>2. buf' # "data" /\ buf' # "eof"
    BY <1>1, <1>2
  <2>3. CASE at' = "close" /\ posted' = TRUE
    BY <1>1, <1>2, <2>1, <2>2, <2>3 DEF ThreadInv, Asking
  <2>4. CASE at' = "fetch" /\ posted' = posted
    <3>1. posted' = FALSE
      BY <1>2, <2>4 DEF IInv, ThreadInv
    <3> QED
      BY <1>1, <1>2, <2>1, <2>2, <2>4, <3>1 DEF ThreadInv, Asking
  <2> QED
    BY <1>1, <2>3, <2>4
<1>7. Becomes(c, {Conn(c)})
  BY <1>1, StillBecomes
<1>8. CASE at' = "close" /\ posted'
  <2>1. ConnInv(Conn(c), "close", 1, 0, sent[c], Said(c), 0, 0)
    BY <1>4, <1>5, EarlyKeeps
  <2> QED
    BY <1>1, <1>2, <1>4, <1>6, <1>7, <1>8, <2>1, ServedKeeps
<1>9. CASE at' = "fetch" /\ ~posted'
  <2>1. ConnInv(Conn(c), "fetch", 0, 0, sent[c], Said(c), 0, 0)
    BY <1>4, <1>5, EarlyKeeps
  <2> QED
    BY <1>1, <1>2, <1>4, <1>6, <1>7, <1>9, <2>1, ServedKeeps
<1> QED
  BY <1>1, <1>2, <1>8, <1>9

\* The web thread serves a connection.
LEMMA ServedNow ==
  ASSUME IInv, NEW c \in Conns, c = serving
  PROVE  /\ ConnInv(Conn(c), at, Asked(c), Held(c), sent[c], Said(c), 0, 0)
         /\ Conn(c) \in ConnType
         /\ Conn(c).p = pcb[c] /\ Conn(c).n = netconn[c] /\ Conn(c).b = pbufs[c] /\ Conn(c).lost = 0
         /\ sent[c] \in Nat /\ Asked(c) \in 0 .. 1 /\ Held(c) \in 0 .. 1 /\ Said(c) \in 0 .. 1
<1>1. Role(c) = at
  BY DEF Role
<1>2. ConnInv(Conn(c), at, Asked(c), Held(c), sent[c], Said(c), 0, 0)
  BY <1>1, Now
<1> QED
  BY <1>2, Now, RoleTypes DEF IInv, ConnInv

\* netconn_recv() takes what is in the mailbox.
LEMMA FetchStep ==
  ASSUME IInv, Fetch
  PROVE  IInv'
<1>1. /\ at = "fetch" /\ netconn[serving].recvmbox # <<>>
      /\ buf' = Head(netconn[serving].recvmbox)
      /\ netconn' = [netconn EXCEPT ![serving].recvmbox = Tail(@)]
      /\ at' = "recved" /\ posted' = TRUE
      /\ pcb' = pcb /\ pbufs' = pbufs /\ leaked' = leaked /\ acceptmbox' = acceptmbox
      /\ serving' = serving /\ part' = part /\ sent' = sent /\ fin' = fin
  BY DEF Fetch, Ask
<1>2. serving \in Conns /\ ~posted /\ buf # "data" /\ buf # "eof" /\ part \in {"none", "header", "body"}
      /\ serving # "nobody"
  BY <1>1, Sizes DEF IInv, ThreadInv, Asking
<1> PICK c \in Conns : c = serving
  BY <1>2
<1> DEFINE x == Conn(c)
           m == [x.n EXCEPT !.recvmbox = Tail(@)]
           y == [x EXCEPT !.n = m]
           u == Bit(Head(x.n.recvmbox) = "data")
<1>3. /\ ConnInv(x, "fetch", 0, 0, sent[c], Said(c), 0, 0) /\ x \in ConnType
      /\ x.p = pcb[c] /\ x.n = netconn[c] /\ x.b = pbufs[c] /\ x.lost = 0
      /\ sent[c] \in Nat /\ Said(c) \in 0 .. 1
  <2>1. Asked(c) = 0 /\ Held(c) = 0
    BY <1>2 DEF Asked, Held
  <2> QED
    BY <1>1, <2>1, ServedNow
<1>4. /\ x.n.recvmbox # <<>> /\ x.n \in NetconnType /\ x.n.recvmbox \in Seq(MailType)
      /\ x.p \in PcbType /\ x.b \in Nat
  BY <1>1, <1>3, Parts
<1>5. Tail(x.n.recvmbox) \in Mailboxes /\ Head(x.n.recvmbox) \in MailType
  BY <1>4, DataInTail DEF Mailboxes
<1>6. /\ pcb' = [pcb EXCEPT ![c] = x.p] /\ pbufs' = [pbufs EXCEPT ![c] = x.b]
      /\ netconn' = [netconn EXCEPT ![c] = m] /\ leaked' = leaked + 0
  BY <1>1, <1>3 DEF IInv
<1>7. buf' = Head(x.n.recvmbox)
  BY <1>1, <1>3
<1> HIDE DEF x
<1>8. m \in NetconnType
  BY <1>4, <1>5 DEF NetconnType
<1>9. m = [x.n EXCEPT !.recvmbox = Tail(@)]
  OBVIOUS
<1> HIDE DEF m
<1>10. y \in ConnType /\ y.p = x.p /\ y.n = m /\ y.b = x.b /\ y.lost = x.lost
  BY <1>3, <1>8 DEF ConnType
<1> HIDE DEF y
<1>11. u \in 0 .. 1 /\ (buf' = "data" => u = 1) /\ (buf' # "data" => u = 0)
  <2>1. Head(x.n.recvmbox) = "data" => u = 1
    BY DEF Bit
  <2>2. Head(x.n.recvmbox) # "data" => u = 0
    BY DEF Bit
  <2> QED
    BY <1>7, <2>1, <2>2
<1>12. u = Bit(Head(x.n.recvmbox) = "data")
  OBVIOUS
<1> HIDE DEF u
<1>13. ConnInv(y, "recved", 1, u, sent[c], Said(c), 0, 0)
  <2>1. "fetch" \in Early
    BY DEF Early
  <2>2. u \in 0 .. 1
    BY <1>11
  <2>3. y.n = [x.n EXCEPT !.recvmbox = Tail(@)]
    BY <1>9, <1>10
  <2> QED
    BY <1>3, <1>4, <1>10, <1>12, <2>1, <2>2, <2>3, FetchKeeps
<1>14. Becomes(c, {y})
  BY <1>3, <1>6, <1>10 DEF Becomes
<1>15. ThreadInv'
  <2>1. buf' \in {"none", "data", "eof"}
    BY <1>5, <1>7 DEF MailType
  <2> QED
    BY <1>1, <1>2, <2>1 DEF ThreadInv, Asking
<1>16. y.lost = 0 /\ y.p = pcb[c]
  BY <1>3, <1>10
<1>17. ConnInv(y, at', 1, u, sent[c], Said(c), 0, 0)
  BY <1>1, <1>13
<1>18. u \in 0 .. 1 /\ (buf' = "data" => u = 1) /\ (buf' # "data" => u = 0)
  BY <1>11
<1> QED
  BY <1>1, <1>14, <1>15, <1>16, <1>17, <1>18, ServedKeeps

\* The web thread has its answer, no request is under way.
LEMMA AnsweredNow ==
  ASSUME IInv, NEW op \in Asking, Answered(op)
  PROVE  /\ serving \in Conns /\ serving # "nobody" /\ at = op /\ ~posted
         /\ Conn(serving).n.done = 1
<1>1. at = op /\ serving \in Conns /\ netconn[serving].done = 1
  BY DEF Answered
<1> PICK c \in Conns : c = serving
  BY <1>1
<1>2. ConnInv(Conn(c), at, Asked(c), Held(c), sent[c], Said(c), 0, 0) /\ Conn(c).n = netconn[c]
  BY ServedNow
<1>3. Asked(c) # 1
  BY <1>1, <1>2 DEF ConnInv, NetconnInv
<1> QED
  BY <1>1, <1>2, <1>3, Sizes DEF Asked

\* It takes its answer and posts the next request.
LEMMA TakenStep ==
  ASSUME IInv, NEW op \in Asking, Answered(op), NEW b \in Asking \ {"recved"},
         b \in {"write", "shut"} => op \in {"recved", "write"},
         Taken, Ask(b), UNCHANGED <<pcb, leaked, acceptmbox, serving, sent, fin>>,
         buf' \in {"none", "data"}, buf' = "data" => b # "delete" /\ b # "shut" /\ buf = "data",
         part' \in {"none", "header", "body"},
         NEW k \in 0 .. 1, pbufs' = [pbufs EXCEPT ![serving] = @ - k],
         k = 1 => buf = "data" /\ buf' # "data",
         k = 0 => (buf = "data" => buf' = "data")
  PROVE  IInv'
<1>1. /\ at = op /\ serving \in Conns /\ serving # "nobody" /\ ~posted
      /\ Conn(serving).n.done = 1
  BY AnsweredNow
<1> PICK c \in Conns : c = serving
  BY <1>1
<1>2. /\ netconn' = [netconn EXCEPT ![c].done = 0] /\ at' = b /\ posted' = TRUE
      /\ pcb' = pcb /\ leaked' = leaked /\ acceptmbox' = acceptmbox /\ serving' = serving
      /\ sent' = sent /\ fin' = fin
  BY DEF Taken, Ask
<1> DEFINE x == Conn(c)
           m == [x.n EXCEPT !.done = 0]
           v == IF buf' = "data" THEN 1 ELSE 0
           u == Held(c)
           y == [x EXCEPT !.n = m, !.b = x.b - u + v]
<1>3. /\ ConnInv(x, op, 0, u, sent[c], Said(c), 0, 0) /\ x \in ConnType
      /\ x.p = pcb[c] /\ x.n = netconn[c] /\ x.b = pbufs[c] /\ x.lost = 0
      /\ sent[c] \in Nat /\ Said(c) \in 0 .. 1 /\ u \in 0 .. 1
  <2>1. Asked(c) = 0
    BY <1>1 DEF Asked
  <2> QED
    BY <1>1, <2>1, ServedNow
<1>4. /\ (u = 1 => buf = "data") /\ (u = 0 => buf # "data")
  BY DEF Held
<1>5. v \in 0 .. u /\ v \in 0 .. 1 /\ u - v = k
  <2>1. CASE buf' = "data"
    BY <1>3, <1>4, <2>1
  <2>2. CASE buf' # "data"
    BY <1>3, <1>4, <2>2
  <2> QED
    BY <2>1, <2>2
<1>6. (buf' = "data" => v = 1) /\ (buf' # "data" => v = 0)
  OBVIOUS
<1>7. x.n.done = 1
  BY <1>1
<1> HIDE DEF x, u, v
<1>8. /\ x.n \in NetconnType /\ x.p \in PcbType /\ x.b \in Nat /\ x.p.refused \in Nat
      /\ DataIn(x.n.recvmbox) \in Nat
  BY <1>3, Parts
<1>9. m \in NetconnType
  BY <1>8, Values DEF NetconnType
<1>10. m = [x.n EXCEPT !.done = 0]
  OBVIOUS
<1> HIDE DEF m
<1>11. x.b - u + v \in Nat
  <2>1. x.b = x.p.refused + DataIn(x.n.recvmbox) + u + 0
    BY <1>3 DEF ConnInv, CountInv
  <2> QED
    BY <1>3, <1>5, <1>8, <2>1
<1>12. /\ y \in ConnType /\ y.p = x.p /\ y.n = m /\ y.b = x.b - u + v /\ y.lost = x.lost
  BY <1>3, <1>9, <1>11 DEF ConnType
<1> HIDE DEF y
<1>13. ConnInv(y, b, 1, v, sent[c], Said(c), 0, 0)
  <2>1. b \in {"write", "shut"} => op \in {"recved", "write"}
    OBVIOUS
  <2>2. y.n = [x.n EXCEPT !.done = 0]
    BY <1>10, <1>12
  <2>3. v \in 0 .. u
    BY <1>5
  <2> QED
    BY <1>3, <1>7, <1>12, <2>1, <2>2, <2>3, TakenKeeps, ZenonT(60)
<1>14. Becomes(c, {y})
  <2>1. /\ pcb \in [Conns -> PcbType] /\ netconn \in [Conns -> NetconnType]
        /\ pbufs \in [Conns -> Nat] /\ leaked \in 0 .. PoolSize
    BY DEF IInv
  <2>2. pcb' = [pcb EXCEPT ![c] = y.p]
    BY <1>2, <1>3, <1>12, <2>1
  <2>3. netconn' = [netconn EXCEPT ![c] = y.n]
    BY <1>2, <1>3, <1>10, <1>12, <2>1
  <2>4. pbufs' = [pbufs EXCEPT ![c] = y.b]
    <3>1. y.b = pbufs[c] - k
      BY <1>3, <1>5, <1>8, <1>12
    <3> QED
      BY <2>1, <3>1
  <2>5. leaked' = leaked + y.lost
    BY <1>2, <1>3, <1>12, <2>1
  <2> QED
    BY <2>2, <2>3, <2>4, <2>5 DEF Becomes
<1>15. ThreadInv'
  <2>1. buf' = "data" => b \in {"write", "close"}
    BY DEF Asking
  <2>2. b \in Asking /\ b # "accept"
    BY DEF Asking
  <2> QED
    BY <1>1, <1>2, <2>1, <2>2 DEF ThreadInv
<1>16. y.lost = 0 /\ y.p = pcb[c]
  BY <1>3, <1>12
<1>17. ConnInv(y, at', 1, v, sent[c], Said(c), 0, 0)
  BY <1>2, <1>13
<1>18. v \in 0 .. 1 /\ (buf' = "data" => v = 1) /\ (buf' # "data" => v = 0)
  BY <1>5, <1>6
<1> QED
  BY <1>2, <1>14, <1>15, <1>16, <1>17, <1>18, ServedKeeps

\* The same with no pbuf freed.
LEMMA TakenStill ==
  ASSUME IInv, NEW op \in Asking, Answered(op), NEW b \in Asking \ {"recved"},
         b \in {"write", "shut"} => op \in {"recved", "write"},
         Taken, Ask(b), UNCHANGED <<pcb, pbufs, leaked, acceptmbox, serving, sent, fin>>,
         buf' \in {"none", "data"}, buf' = "data" => b # "delete" /\ b # "shut" /\ buf = "data",
         part' \in {"none", "header", "body"}, buf = "data" => buf' = "data"
  PROVE  IInv'
<1>1. pbufs' = [pbufs EXCEPT ![serving] = @ - 0]
  <2>1. pbufs \in [Conns -> Nat] /\ serving \in Conns
    BY AnsweredNow DEF IInv
  <2> QED
    BY <2>1
<1>2. UNCHANGED <<pcb, leaked, acceptmbox, serving, sent, fin>>
  OBVIOUS
<1> PICK k \in 0 .. 1 : k = 0
  OBVIOUS
<1>3. pbufs' = [pbufs EXCEPT ![serving] = @ - k]
  BY <1>1
<1>4. k = 1 => buf = "data" /\ buf' # "data"
  OBVIOUS
<1>5. k = 0 => (buf = "data" => buf' = "data")
  OBVIOUS
<1> QED
  BY <1>2, <1>3, <1>4, <1>5, TakenStep

\* The answer to netconn_recv()'s do_recv().
LEMMA ReceivedStep ==
  ASSUME IInv, Received
  PROVE  IInv'
<1>1. /\ Answered("recved") /\ Taken
      /\ UNCHANGED <<pcb, pbufs, leaked, acceptmbox, serving, sent, fin>>
      /\ \/ buf = "data" /\ Ask("write") /\ part' = "header" /\ buf' = buf
         \/ buf # "data" /\ Ask("close") /\ buf' = "none" /\ part' = part
         \/ buf # "data" /\ Ask("shut") /\ buf' = "none" /\ part' = part
  BY DEF Received
<1>2. {"recved", "write", "close", "shut"} \subseteq Asking
  BY DEF Asking
<1>3. part \in {"none", "header", "body"}
  BY DEF IInv, ThreadInv
<1>4. CASE buf = "data" /\ Ask("write") /\ part' = "header" /\ buf' = buf
  <2>1. "write" \in Asking \ {"recved"} /\ "recved" \in Asking
    BY <1>2
  <2> QED
    BY <1>1, <1>4, <2>1, TakenStill
<1>5. CASE buf # "data" /\ Ask("close") /\ buf' = "none" /\ part' = part
  <2>1. "close" \in Asking \ {"recved"} /\ "recved" \in Asking
    BY <1>2
  <2> QED
    BY <1>1, <1>3, <1>5, <2>1, TakenStill
<1>6. CASE buf # "data" /\ Ask("shut") /\ buf' = "none" /\ part' = part
  <2>1. "shut" \in Asking \ {"recved"} /\ "recved" \in Asking
    BY <1>2
  <2> QED
    BY <1>1, <1>3, <1>6, <2>1, TakenStill
<1> QED
  BY <1>1, <1>4, <1>5, <1>6

\* The answer to the shutdown at the end of a stream.
LEMMA ShutStep ==
  ASSUME IInv, Shut
  PROVE  IInv'
<1>1. /\ Answered("shut") /\ Taken /\ Ask("close")
      /\ UNCHANGED <<pcb, pbufs, leaked, acceptmbox, serving, sent, fin>>
      /\ buf' = buf /\ part' = part
  BY DEF Shut
<1>2. "shut" \in Asking /\ "close" \in Asking \ {"recved"}
  BY DEF Asking
<1>3. at = "shut"
  BY <1>1 DEF Answered
<1>4. buf = "none" /\ part \in {"none", "header", "body"}
  BY <1>3 DEF IInv, ThreadInv
<1> QED
  BY <1>1, <1>2, <1>4, TakenStill

\* The answer to netconn_write(): the body follows the header, the close the body.
LEMMA WrittenStep ==
  ASSUME IInv, Written
  PROVE  IInv'
<1>1. /\ Answered("write") /\ Taken
      /\ UNCHANGED <<pcb, pbufs, leaked, acceptmbox, serving, sent, fin>>
      /\ buf' = buf
      /\ \/ part' = "body" /\ Ask("write")
         \/ part' = "none" /\ Ask("close")
  BY DEF Written
<1>2. "write" \in Asking \ {"recved"} /\ "close" \in Asking \ {"recved"} /\ "write" \in Asking
  BY DEF Asking
<1>3. at = "write"
  BY <1>1 DEF Answered
<1>4. buf \in {"none", "data"}
  BY <1>3 DEF IInv, ThreadInv
<1>5. CASE part' = "body" /\ Ask("write")
  BY <1>1, <1>2, <1>4, <1>5, TakenStill
<1>6. CASE part' = "none" /\ Ask("close")
  BY <1>1, <1>2, <1>4, <1>6, TakenStill
<1> QED
  BY <1>1, <1>5, <1>6

\* The answer to netconn_close(), and netbuf_delete().
LEMMA ClosedStep ==
  ASSUME IInv, Closed
  PROVE  IInv'
<1> DEFINE k == IF buf = "data" THEN 1 ELSE 0
<1>1. /\ Answered("close") /\ Taken /\ Ask("delete")
      /\ pbufs' = [pbufs EXCEPT ![serving] = IF buf = "data" THEN @ - 1 ELSE @]
      /\ UNCHANGED <<pcb, leaked, acceptmbox, serving, sent, fin>>
      /\ buf' = "none" /\ part' = part
  BY DEF Closed
<1>2. "close" \in Asking /\ "delete" \in Asking \ {"recved"}
  BY DEF Asking
<1>3. pbufs' = [pbufs EXCEPT ![serving] = @ - k]
  <2>1. pbufs \in [Conns -> Nat] /\ serving \in Conns
    BY <1>1 DEF IInv, Answered
  <2>2. (IF buf = "data" THEN pbufs[serving] - 1 ELSE pbufs[serving]) = pbufs[serving] - k
    BY <2>1
  <2> QED
    BY <1>1, <2>2
<1>4. k \in 0 .. 1 /\ (k = 1 => buf = "data" /\ buf' # "data") /\ (k = 0 => buf # "data")
  BY <1>1
<1>5. part' \in {"none", "header", "body"}
  BY <1>1 DEF IInv, ThreadInv
<1> HIDE DEF k
<1> QED
  BY <1>1, <1>2, <1>3, <1>4, <1>5, TakenStep

\* The answer to netconn_delete().
LEMMA DeletedStep ==
  ASSUME IInv, Deleted
  PROVE  IInv'
<1>1. /\ Answered("delete") /\ at' = "accept" /\ serving' = "nobody"
      /\ \/ netconn[serving].state = "none" /\ netconn' = [netconn EXCEPT ![serving] = NoNetconn]
         \/ netconn[serving].state # "none"
      /\ pcb' = pcb /\ pbufs' = pbufs /\ leaked' = leaked /\ acceptmbox' = acceptmbox
      /\ buf' = buf /\ part' = part /\ posted' = posted /\ sent' = sent /\ fin' = fin
  BY DEF Deleted
<1>2. "delete" \in Asking
  BY DEF Asking
<1>3. /\ at = "delete" /\ serving \in Conns /\ serving # "nobody" /\ ~posted
      /\ Conn(serving).n.done = 1
  BY <1>1, <1>2, AnsweredNow
<1>4. buf = "none"
  BY <1>3 DEF IInv, ThreadInv
<1> PICK c \in Conns : c = serving
  BY <1>3
<1> DEFINE x == Conn(c)
           y == [x EXCEPT !.n = NoNetconn]
<1>5. /\ ConnInv(x, "delete", 0, 0, sent[c], Said(c), 0, 0) /\ x \in ConnType
      /\ x.p = pcb[c] /\ x.n = netconn[c] /\ x.b = pbufs[c] /\ x.lost = 0
      /\ sent[c] \in Nat /\ Said(c) \in 0 .. 1
  <2>1. Asked(c) = 0 /\ Held(c) = 0
    BY <1>3, <1>4 DEF Asked, Held
  <2> QED
    BY <1>3, <2>1, ServedNow
<1>6. x.n.done = 1
  BY <1>3
<1> HIDE DEF x
<1>7. y \in ConnType /\ y.p = x.p /\ y.n = NoNetconn /\ y.b = x.b /\ y.lost = x.lost
  BY <1>5, Blank DEF ConnType
<1> HIDE DEF y
<1>8. x.n.state = "none" /\ ConnInv(y, "free", 0, 0, sent[c], Said(c), 0, 0)
  BY <1>2, <1>5, <1>6, <1>7, DeletedKeeps
<1>9. Becomes(c, {y})
  <2>1. /\ pcb \in [Conns -> PcbType] /\ pbufs \in [Conns -> Nat] /\ leaked \in 0 .. PoolSize
    BY DEF IInv
  <2>2. netconn' = [netconn EXCEPT ![c] = y.n]
    BY <1>1, <1>5, <1>7, <1>8
  <2>3. pcb' = [pcb EXCEPT ![c] = y.p] /\ pbufs' = [pbufs EXCEPT ![c] = y.b] /\ leaked' = leaked + y.lost
    BY <1>1, <1>5, <1>7, <2>1
  <2> QED
    BY <2>2, <2>3 DEF Becomes
<1>10. /\ Role(c)' = "free" /\ Asked(c)' = 0 /\ Held(c)' = 0
       /\ sent'[c] = sent[c] /\ Said(c)' = Said(c)
  <2>1. ~Queued(c)'
    BY <1>1 DEF IInv, AcceptInv, Queued
  <2>2. c # "nobody"
    BY Sizes
  <2> QED
    BY <1>1, <2>1, <2>2 DEF Role, Asked, Held, Said
<1>11. \A e \in Conns \ {c} : /\ Role(e)' = Role(e) /\ Asked(e)' = Asked(e)
                              /\ Held(e)' = Held(e) /\ sent'[e] = sent[e] /\ Said(e)' = Said(e)
  <2>1. "nobody" \notin Conns
    BY Sizes
  <2> QED
    BY <1>1, <2>1 DEF Role, Asked, Held, Said, Queued
<1>12. \A z \in {y} : ConnInv(z, Role(c)', Asked(c)', Held(c)', sent'[c], Said(c)', 0, 0)
  <2>1. ConnInv(y, Role(c)', Asked(c)', Held(c)', sent'[c], Said(c)', 0, 0)
    BY <1>8, <1>10
  <2> QED
    BY <2>1
<1>13. /\ pcb' \in [Conns -> PcbType] /\ netconn' \in [Conns -> NetconnType]
       /\ pbufs' \in [Conns -> Nat]
       /\ \A e \in Conns : Kept(e)'
  BY <1>9, <1>11, <1>12, OneKeeps
<1>14. ThreadInv'
  <2>1. posted' = FALSE /\ buf' = "none"
    BY <1>1, <1>3, <1>4 DEF IInv, ThreadInv
  <2> QED
    BY <1>1, <2>1 DEF IInv, ThreadInv, Asking
<1>15. AcceptInv'
  <2>1. "nobody" \notin Conns
    BY Sizes
  <2>2. \A i \in 1 .. Len(acceptmbox) : acceptmbox[i] \in Conns
    BY ElementOfSeq DEF IInv, AcceptInv
  <2> QED
    BY <1>1, <2>1, <2>2 DEF IInv, AcceptInv
<1>16. Unheard'
  BY <1>1 DEF IInv, Unheard
<1> QED
  BY <1>1, <1>13, <1>14, <1>15, <1>16 DEF IInv

\* Whatever the web thread does.
LEMMA ThreadStep ==
  ASSUME IInv, Thread
  PROVE  IInv'
BY AcceptStep, CheckStep, FetchStep, ReceivedStep, ShutStep, WrittenStep, ClosedStep, DeletedStep
   DEF Thread

-----------------------------------------------------------------------------
(* New connections.                                                        *)

\* A netconn in use waits in acceptmbox or is served, so that all are in use
\* only while the mailbox is full.
LEMMA NetconnsLeft ==
  ASSUME IInv, Len(acceptmbox) < AcceptSize
  PROVE  Cardinality({d \in Conns : netconn[d].used}) # NumNetconn
<1> DEFINE U == {d \in Conns : netconn[d].used}
           T == {acceptmbox[i] : i \in 1 .. Len(acceptmbox)}
           n == Len(acceptmbox)
<1>1. acceptmbox \in Seq(Conns) /\ n \in Nat
  BY LenProperties DEF IInv, AcceptInv
<1>2. Cardinality(T) <= n /\ IsFiniteSet(T)
  <2>1. acceptmbox \in [1 .. n -> T]
    <3>1. acceptmbox = [i \in 1 .. n |-> acceptmbox[i]]
      BY <1>1, LenProperties
    <3>2. \A i \in 1 .. n : acceptmbox[i] \in T
      OBVIOUS
    <3> HIDE DEF T, n
    <3> QED
      BY <3>1, <3>2
  <2>2. \A t \in T : \E i \in 1 .. n : acceptmbox[i] = t
    OBVIOUS
  <2>3. acceptmbox \in Surjection(1 .. n, T)
    BY <2>1, <2>2 DEF Surjection
  <2>4. ExistsSurjection(1 .. n, T)
    BY <2>3 DEF ExistsSurjection
  <2>5. IsFiniteSet(1 .. n)
    BY <1>1, FS_Interval
  <2> HIDE DEF T, n
  <2> QED
    BY <1>1, <2>3, <2>4, <2>5, FS_Surjection, FS_SurjCardinalityBound
<1>3. U \subseteq T \cup {serving}
  <2> SUFFICES ASSUME NEW d \in Conns, netconn[d].used, serving # d
               PROVE  d \in T
    OBVIOUS
  <2>1. ConnInv(Conn(d), Role(d), Asked(d), Held(d), sent[d], Said(d), 0, 0) /\ Conn(d).n = netconn[d]
    BY Now
  <2>2. Role(d) # "free"
    BY <2>1 DEF ConnInv, NetconnInv
  <2>3. Queued(d)
    BY <2>2 DEF Role
  <2> QED
    BY <2>3 DEF Queued
<1> HIDE DEF U, T, n
<1>4. IsFiniteSet(T \cup {serving}) /\ Cardinality(T \cup {serving}) <= n + 1
  <2>1. Cardinality(T) \in Nat
    BY <1>2, FS_CardinalityType
  <2>2. /\ IsFiniteSet(T \cup {serving})
        /\ Cardinality(T \cup {serving}) = IF serving \in T THEN Cardinality(T) ELSE Cardinality(T) + 1
    BY <1>2, FS_AddElement
  <2> QED
    BY <1>1, <1>2, <2>1, <2>2
<1>5. Cardinality(U) <= Cardinality(T \cup {serving}) /\ Cardinality(U) \in Nat
      /\ Cardinality(T \cup {serving}) \in Nat
  BY <1>3, <1>4, FS_Subset, FS_CardinalityType
<1>6. n < AcceptSize
  BY DEF n
<1> QED
  BY <1>1, <1>4, <1>5, <1>6, Sizes DEF U

\* The record of a connection that has just shaken hands.
LEMMA AcceptedKeeps ==
  ASSUME NEW x, NEW a \in Roles, ConnInv(x, a, 0, 0, 0, 0, 0, 0), x.p.state = "syn",
         NEW y, y = [x EXCEPT !.p.state = "est", !.p.owned = TRUE, !.n = NewNetconn]
  PROVE  a = "free" /\ ConnInv(y, "queued", 0, 0, 0, 0, 0, 0) /\ y.lost = x.lost /\ y.p.state = "est"
<1> DEFINE q == [x.p EXCEPT !.state = "est", !.owned = TRUE]
<1>1. x \in ConnType /\ x.p = NewPcb /\ x.n = NoNetconn /\ x.b \in Nat /\ a = "free"
  BY Parts DEF ConnInv, PcbInv, NetconnInv
<1>2. q \in PcbType /\ q.state = "est" /\ q.owned /\ ~q.rxClosed /\ ~q.closePend /\ q.refused = 0
      /\ ~q.refusedFin /\ q.unread = 0
  BY <1>1, Blank, Values DEF PcbType
<1>3. /\ NewNetconn \in NetconnType /\ NewNetconn.used /\ NewNetconn.pcb /\ NewNetconn.valid
      /\ NewNetconn.state = "none" /\ ~NewNetconn.msg /\ NewNetconn.done = 0
      /\ NewNetconn.recvmbox = <<>>
  BY Blank DEF NewNetconn, NetconnType
<1>4. y = [x EXCEPT !.p = q, !.n = NewNetconn]
  BY <1>1 DEF ConnType
<1> HIDE DEF q
<1>5. y \in ConnType /\ y.p = q /\ y.n = NewNetconn /\ y.b = x.b /\ y.lost = x.lost
  BY <1>1, <1>2, <1>3, <1>4 DEF ConnType
<1>6. NetconnInv(y.n, "queued", 0)
  <2>1. NewNetconn # NoNetconn /\ Len(NewNetconn.recvmbox) <= RecvSize
    BY <1>3, Blank, DataInEmpty, Sizes
  <2> QED
    BY <1>3, <1>5, <2>1 DEF NetconnInv, Early, Asking
<1>7. PcbInv(y.p, y.n, 0, 0, 0)
  BY <1>2, <1>3, <1>5 DEF PcbInv, Active
<1>8. CountInv(y, "queued", 0, 0, 0, 0, 0, 0)
  <2>1. DataIn(<<>>) = 0
    BY DataInEmpty
  <2>2. x.b = 0
    <3>1. x.b = x.p.refused + DataIn(x.n.recvmbox) + 0 + 0 /\ x.p.refused = 0 /\ x.n.recvmbox = <<>>
      BY <1>1, Blank DEF ConnInv, CountInv
    <3> QED
      BY <2>1, <3>1
  <2>3. Due("queued", 0, 0) = 0
    BY DEF Due
  <2>4. Bit(q.refusedFin) = 0
    BY <1>2 DEF Bit
  <2> QED
    BY <1>2, <1>3, <1>5, <2>1, <2>2, <2>3, <2>4 DEF CountInv
<1>9. EarlyInv(y, "queued", 0, 0, 0, 0)
  BY <1>2, <1>5 DEF EarlyInv
<1> QED
  BY <1>1, <1>2, <1>5, <1>6, <1>7, <1>8, <1>9 DEF ConnInv

\* accept_function(): a handshake ends, with a netconn or without.
LEMMA HandshakeStep ==
  ASSUME IInv, NEW c \in Conns, Handshake(c)
  PROVE  IInv'
<1>1. /\ pcb[c].state = "syn" /\ UNCHANGED <<web, sent, fin>>
      /\ at' = at /\ serving' = serving /\ buf' = buf /\ part' = part /\ posted' = posted
      /\ sent' = sent /\ fin' = fin
  BY DEF Handshake, web
<1>2. acceptmbox \in Seq(Conns) /\ Len(acceptmbox) <= AcceptSize /\ Len(acceptmbox) \in Nat
  BY LenProperties DEF IInv, AcceptInv
<1>3. CASE Len(acceptmbox) = AcceptSize
  <2>1. Becomes(c, {Removed(Conn(c))}) /\ acceptmbox' = acceptmbox
    BY <1>3, Sizes DEF Handshake
  <2>2. UNCHANGED <<acceptmbox, web, sent, fin>>
    BY <1>1, <2>1
  <2> QED
    BY <2>1, <2>2, RemovalKeeps
<1>4. CASE Len(acceptmbox) < AcceptSize
  <2> DEFINE y == [Conn(c) EXCEPT !.p.state = "est", !.p.owned = TRUE, !.n = NewNetconn]
             t == Append(acceptmbox, c)
  <2>1. Becomes(c, {y}) /\ acceptmbox' = t
    BY <1>4, NetconnsLeft, Sizes DEF Handshake
  <2>2. sent[c] = 0 /\ ~fin[c] /\ Said(c) = 0
    BY <1>1 DEF IInv, Unheard, Said
  <2>3. /\ ConnInv(Conn(c), Role(c), Asked(c), Held(c), 0, 0, 0, 0)
        /\ Conn(c).p = pcb[c] /\ Conn(c).n = netconn[c] /\ Conn(c).lost = 0
    BY <2>2, Now
  <2>4. Role(c) = "free"
    BY <1>1, <2>3 DEF ConnInv, PcbInv, NetconnInv
  <2>5. serving # c /\ ~Queued(c)
    <3>1. serving = c => Role(c) \in Asking \cup {"check", "fetch"}
      BY RoleTypes DEF IInv
    <3>2. serving # c
      BY <2>4, <3>1 DEF Asking
    <3> QED
      BY <2>4, <3>2 DEF Role
  <2>6. Asked(c) = 0 /\ Held(c) = 0
    BY <2>5 DEF Asked, Held
  <2>7. ConnInv(y, "queued", 0, 0, 0, 0, 0, 0) /\ y.lost = Conn(c).lost /\ y.p.state = "est"
    <3>1. ConnInv(Conn(c), "free", 0, 0, 0, 0, 0, 0) /\ Conn(c).p.state = "syn" /\ "free" \in Roles
      BY <1>1, <2>3, <2>4, <2>6 DEF Roles
    <3> PICK z : z = y
      OBVIOUS
    <3>2. z = [Conn(c) EXCEPT !.p.state = "est", !.p.owned = TRUE, !.n = NewNetconn]
      OBVIOUS
    <3> HIDE DEF y
    <3>3. ConnInv(z, "queued", 0, 0, 0, 0, 0, 0) /\ z.lost = Conn(c).lost /\ z.p.state = "est"
      BY <3>1, <3>2, AcceptedKeeps
    <3> QED
      BY <3>3
  <2> HIDE DEF y
  <2>8. /\ t \in Seq(Conns) /\ Len(t) = Len(acceptmbox) + 1
        /\ \A i \in 1 .. Len(acceptmbox) : t[i] = acceptmbox[i]
        /\ t[Len(acceptmbox) + 1] = c
    BY <1>2, AppendProperties
  <2>9. \A i \in 1 .. Len(acceptmbox) : acceptmbox[i] # c
    BY <2>5 DEF Queued
  <2>10. AcceptInv'
    <3>1. Len(t) <= AcceptSize
      BY <1>2, <1>4, <2>8, Sizes
    <3>2. ASSUME NEW i \in 1 .. Len(t)
          PROVE  /\ i \in 1 .. Len(acceptmbox) \/ i = Len(acceptmbox) + 1
                 /\ t[i] # serving
      <4>1. i \in 1 .. Len(acceptmbox) \/ i = Len(acceptmbox) + 1
        BY <1>2, <2>8
      <4>2. \A j \in 1 .. Len(acceptmbox) : acceptmbox[j] # serving
        BY DEF IInv, AcceptInv
      <4> QED
        BY <2>5, <2>8, <4>1, <4>2
    <3>3. \A i, j \in 1 .. Len(acceptmbox) : acceptmbox[i] = acceptmbox[j] => i = j
      BY DEF IInv, AcceptInv
    <3>4. ASSUME NEW i \in 1 .. Len(t), NEW j \in 1 .. Len(t), t[i] = t[j]
          PROVE  i = j
      BY <2>8, <2>9, <3>2, <3>3, <3>4
    <3> HIDE DEF t
    <3> QED
      BY <1>1, <2>1, <2>8, <3>1, <3>2, <3>4 DEF AcceptInv
  <2>11. Queued(c)' /\ \A e \in Conns \ {c} : Queued(e)' <=> Queued(e)
    <3>1. Queued(c)'
      <4>1. Len(acceptmbox) + 1 \in 1 .. Len(t)
        BY <1>2, <2>8
      <4> HIDE DEF t
      <4> QED
        BY <2>1, <2>8, <4>1 DEF Queued
    <3>2. ASSUME NEW e \in Conns \ {c}, Queued(e)
          PROVE  Queued(e)'
      <4>1. PICK i \in 1 .. Len(acceptmbox) : acceptmbox[i] = e
        BY <3>2 DEF Queued
      <4>2. i \in 1 .. Len(t) /\ t[i] = e
        BY <1>2, <2>8, <4>1
      <4> HIDE DEF t
      <4> QED
        BY <2>1, <4>2 DEF Queued
    <3>3. ASSUME NEW e \in Conns \ {c}, Queued(e)'
          PROVE  Queued(e)
      <4>1. PICK i \in 1 .. Len(t) : t[i] = e
        BY <2>1, <3>3 DEF Queued
      <4>2. i \in 1 .. Len(acceptmbox)
        BY <1>2, <2>8, <4>1
      <4> QED
        BY <2>8, <4>1, <4>2 DEF Queued
    <3> QED
      BY <3>1, <3>2, <3>3
  <2> HIDE DEF t
  <2>12. /\ Role(c)' = "queued" /\ Asked(c)' = 0 /\ Held(c)' = 0 /\ sent'[c] = 0 /\ Said(c)' = 0
    BY <1>1, <2>2, <2>5, <2>11 DEF Role, Asked, Held, Said
  <2>13. \A e \in Conns \ {c} : /\ Role(e)' = Role(e) /\ Asked(e)' = Asked(e)
                                /\ Held(e)' = Held(e) /\ sent'[e] = sent[e] /\ Said(e)' = Said(e)
    BY <1>1, <2>11 DEF Role, Asked, Held, Said
  <2>14. \A x \in {y} : ConnInv(x, Role(c)', Asked(c)', Held(c)', sent'[c], Said(c)', 0, 0)
    <3>1. ConnInv(y, Role(c)', Asked(c)', Held(c)', sent'[c], Said(c)', 0, 0)
      BY <2>7, <2>12
    <3> QED
      BY <3>1
  <2>15. /\ pcb' \in [Conns -> PcbType] /\ netconn' \in [Conns -> NetconnType]
         /\ pbufs' \in [Conns -> Nat]
         /\ \A e \in Conns : Kept(e)'
    BY <2>1, <2>13, <2>14, OneKeeps
  <2>16. ThreadInv'
    BY <1>1 DEF IInv, ThreadInv
  <2>17. pcb' = [pcb EXCEPT ![c] = y.p] /\ leaked' = leaked
    <3>1. pcb' = [pcb EXCEPT ![c] = y.p] /\ leaked' = leaked + y.lost
      BY <2>1 DEF Becomes
    <3>2. y.lost = 0
      BY <2>3, <2>7
    <3> QED
      BY <3>1, <3>2 DEF IInv
  <2>18. Unheard'
    <3>1. pcb \in [Conns -> PcbType]
      BY DEF IInv
    <3>2. \A e \in Conns : pcb'[e].state = "syn" => pcb[e].state = "syn"
      BY <2>7, <2>17, <3>1
    <3> QED
      BY <1>1, <3>2 DEF IInv, Unheard
  <2> QED
    BY <1>1, <2>10, <2>15, <2>16, <2>17, <2>18 DEF IInv
<1> QED
  BY <1>2, <1>3, <1>4, Sizes

\* The record of a connection that begins.
LEMMA BegunKeeps ==
  ASSUME NEW x, NEW s \in Nat, NEW f \in 0 .. 1,
         ConnInv(x, "free", 0, 0, s, f, 0, 0), x.p = NoPcb, x.n = NoNetconn,
         NEW y \in ConnType, y.p = NewPcb, y.n = NoNetconn, y.b = x.b
  PROVE  ConnInv(y, "free", 0, 0, 0, 0, 0, 0)
<1>1. x.b = 0
  <2>1. x.b = x.p.refused + DataIn(x.n.recvmbox) + 0 + 0 /\ x.p.refused = 0 /\ x.n.recvmbox = <<>>
    BY Blank DEF ConnInv, CountInv
  <2> QED
    BY <2>1, DataInEmpty
<1>2. NetconnInv(y.n, "free", 0)
  BY DEF ConnInv
<1>3. PcbInv(y.p, y.n, 0, 0, 0)
  BY Blank DEF PcbInv
<1>4. CountInv(y, "free", 0, 0, 0, 0, 0, 0)
  <2>1. DataIn(y.n.recvmbox) = 0
    BY Blank, DataInEmpty
  <2> QED
    BY <1>1, <2>1, Blank DEF CountInv
<1>5. EarlyInv(y, "free", 0, 0, 0, 0)
  BY DEF EarlyInv, Early
<1> QED
  BY <1>2, <1>3, <1>4, <1>5 DEF ConnInv

\* A connection is what x is.
LEMMA KeptAs ==
  ASSUME NEW c \in Conns, NEW x, pcb'[c] = x.p, netconn'[c] = x.n, pbufs'[c] = x.b,
         ConnInv(x, Role(c)', Asked(c)', Held(c)', sent'[c], Said(c)', 0, 0)
  PROVE  Kept(c)'
<1> DEFINE y == [p |-> x.p, n |-> x.n, b |-> x.b, lost |-> 0]
<1>1. Conn(c)' = y
  BY DEF Conn
<1>2. x.p \in PcbType /\ x.n \in NetconnType /\ x.b \in Nat
  BY Parts DEF ConnInv
<1>3. y \in ConnType /\ y.p = x.p /\ y.n = x.n /\ y.b = x.b
  BY <1>2, Values DEF ConnType
<1> HIDE DEF y
<1>4. ConnInv(y, Role(c)', Asked(c)', Held(c)', sent'[c], Said(c)', 0, 0)
  BY <1>3 DEF ConnInv, CountInv, EarlyInv
<1> QED
  BY <1>1, <1>4 DEF Kept

\* tcp_listen_input().
LEMMA SynStep ==
  ASSUME IInv, NEW c \in Conns, Syn(c)
  PROVE  IInv'
<1>1. /\ pcb[c] = NoPcb /\ netconn[c] = NoNetconn
      /\ sent' = [sent EXCEPT ![c] = 0] /\ fin' = [fin EXCEPT ![c] = FALSE]
      /\ leaked' = leaked /\ acceptmbox' = acceptmbox /\ at' = at /\ serving' = serving
      /\ buf' = buf /\ part' = part /\ posted' = posted
  BY DEF Syn, web
<1>2. /\ pcb \in [Conns -> PcbType] /\ netconn \in [Conns -> NetconnType]
      /\ pbufs \in [Conns -> Nat] /\ leaked \in 0 .. PoolSize
      /\ sent \in [Conns -> 0 .. MaxSegs] /\ fin \in [Conns -> BOOLEAN]
  BY DEF IInv
<1>3. /\ sent' \in [Conns -> 0 .. MaxSegs] /\ fin' \in [Conns -> BOOLEAN]
      /\ sent'[c] = 0 /\ ~fin'[c]
      /\ \A e \in Conns \ {c} : sent'[e] = sent[e] /\ fin'[e] = fin[e]
  BY <1>1, <1>2, Sizes
<1>4. \A e \in Conns : Role(e)' = Role(e) /\ Asked(e)' = Asked(e) /\ Held(e)' = Held(e)
  BY <1>1 DEF Role, Asked, Held, Queued
<1>5. Said(c)' = 0 /\ \A e \in Conns \ {c} : Said(e)' = Said(e)
  BY <1>3 DEF Said
<1>6. /\ ConnInv(Conn(c), Role(c), Asked(c), Held(c), sent[c], Said(c), 0, 0)
      /\ Conn(c).p = NoPcb /\ Conn(c).n = NoNetconn /\ Conn(c).b = pbufs[c]
      /\ sent[c] \in Nat /\ Said(c) \in 0 .. 1
  BY <1>1, Now, RoleTypes DEF IInv
<1>7. Role(c) = "free"
  BY <1>6 DEF ConnInv, NetconnInv
<1>8. Asked(c) = 0 /\ Held(c) = 0
  <2>1. serving = c => Role(c) \in Asking \cup {"check", "fetch"}
    BY RoleTypes DEF IInv
  <2>2. serving # c
    BY <1>7, <2>1 DEF Asking
  <2> QED
    BY <2>2 DEF Asked, Held
<1> DEFINE y == [p |-> NewPcb, n |-> NoNetconn, b |-> pbufs[c], lost |-> 0]
<1>9. y \in ConnType /\ y.p = NewPcb /\ y.n = NoNetconn /\ y.b = pbufs[c]
  BY <1>2, Blank, Values DEF ConnType
<1> HIDE DEF y
<1>10. ConnInv(y, "free", 0, 0, 0, 0, 0, 0)
  <2>1. ConnInv(Conn(c), "free", 0, 0, sent[c], Said(c), 0, 0)
    BY <1>6, <1>7, <1>8
  <2> QED
    BY <1>6, <1>9, <2>1, BegunKeeps
<1>11. ConnInv(y, Role(c)', Asked(c)', Held(c)', sent'[c], Said(c)', 0, 0)
  BY <1>3, <1>4, <1>5, <1>7, <1>8, <1>10
<1>12. ASSUME pcb' \in [Conns -> PcbType], netconn' \in [Conns -> NetconnType],
              pbufs' \in [Conns -> Nat], \A e \in Conns : Kept(e)',
              \A e \in Conns \ {c} : pcb'[e].state = "syn" => pcb[e].state = "syn"
       PROVE  IInv'
  <2>1. ThreadInv' /\ AcceptInv'
    BY <1>1 DEF IInv, ThreadInv, AcceptInv
  <2>2. Unheard'
    BY <1>3, <1>12 DEF IInv, Unheard
  <2> QED
    BY <1>1, <1>2, <1>3, <1>12, <2>1, <2>2 DEF IInv
<1>13. ASSUME NEW e \in Conns \ {c}, pcb'[e] = pcb[e], netconn'[e] = netconn[e], pbufs'[e] = pbufs[e]
       PROVE  Kept(e)'
  <2>1. Conn(e)' = Conn(e)
    BY <1>13 DEF Conn
  <2>2. ConnInv(Conn(e), Role(e), Asked(e), Held(e), sent[e], Said(e), 0, 0)
    BY Now
  <2> QED
    BY <1>3, <1>4, <1>5, <2>1, <2>2 DEF Kept
<1>14. CASE Victims = {}
  <2>1. pcb' = [pcb EXCEPT ![c] = NewPcb] /\ netconn' = netconn /\ pbufs' = pbufs
    BY <1>14 DEF Syn
  <2>2. Kept(c)'
    <3>1. pcb'[c] = y.p /\ netconn'[c] = y.n /\ pbufs'[c] = y.b
      BY <1>1, <1>2, <1>9, <2>1
    <3> QED
      BY <1>11, <3>1, KeptAs
  <2>3. \A e \in Conns \ {c} : pcb'[e] = pcb[e] /\ netconn'[e] = netconn[e] /\ pbufs'[e] = pbufs[e]
    BY <1>2, <2>1
  <2>4. \A e \in Conns : Kept(e)'
    BY <1>13, <2>2, <2>3
  <2>5. /\ pcb' \in [Conns -> PcbType] /\ netconn' \in [Conns -> NetconnType]
        /\ pbufs' \in [Conns -> Nat]
    BY <1>2, <2>1, Blank
  <2> QED
    BY <1>12, <2>3, <2>4, <2>5
<1>15. CASE Victims # {}
  <2>1. PICK v \in Victims :
          /\ pcb' = [pcb EXCEPT ![c] = NewPcb, ![v] = Removed(Conn(v)).p]
          /\ netconn' = [netconn EXCEPT ![v] = Removed(Conn(v)).n]
          /\ pbufs' = [pbufs EXCEPT ![v] = Removed(Conn(v)).b]
    BY <1>15 DEF Syn
  <2>2. v \in Conns \ {c}
    <3>1. v \in Conns /\ pcb[v].state \in Active \cup {"timewait"}
      BY <2>1 DEF Victims, Active
    <3>2. pcb[v].state # "free"
      BY <3>1 DEF Active
    <3> QED
      BY <1>1, <3>1, <3>2, Blank
  <2> DEFINE x == Removed(Conn(v))
  <2>3. /\ ConnInv(x, Role(v), Asked(v), Held(v), sent[v], Said(v), 0, 0)
        /\ x.p = NoPcb
    <3>1. ConnInv(Conn(v), Role(v), Asked(v), Held(v), sent[v], Said(v), 0, 0) /\ sent[v] \in Nat
      BY <2>2, Now
    <3>2. Role(v) \in Roles /\ Asked(v) \in 0 .. 1 /\ Held(v) \in 0 .. 1 /\ Said(v) \in 0 .. 1
      BY <2>2, RoleTypes DEF IInv
    <3> QED
      BY <3>1, <3>2, RemovedAlways
  <2>4. x.p \in PcbType /\ x.n \in NetconnType /\ x.b \in Nat
    BY <2>3, Parts DEF ConnInv
  <2>5. /\ pcb' = [pcb EXCEPT ![c] = NewPcb, ![v] = x.p]
        /\ netconn' = [netconn EXCEPT ![v] = x.n] /\ pbufs' = [pbufs EXCEPT ![v] = x.b]
    BY <2>1
  <2> HIDE DEF x
  <2>6. Kept(c)'
    <3>1. pcb'[c] = y.p /\ netconn'[c] = y.n /\ pbufs'[c] = y.b
      BY <1>1, <1>2, <1>9, <2>2, <2>5
    <3> QED
      BY <1>11, <3>1, KeptAs
  <2>7. Kept(v)'
    <3>1. pcb'[v] = x.p /\ netconn'[v] = x.n /\ pbufs'[v] = x.b
      BY <1>2, <2>2, <2>5
    <3>2. ConnInv(x, Role(v)', Asked(v)', Held(v)', sent'[v], Said(v)', 0, 0)
      BY <1>3, <1>4, <1>5, <2>2, <2>3
    <3> QED
      BY <2>2, <3>1, <3>2, KeptAs
  <2>8. \A e \in Conns \ {c, v} : pcb'[e] = pcb[e] /\ netconn'[e] = netconn[e] /\ pbufs'[e] = pbufs[e]
    BY <1>2, <2>2, <2>5
  <2>9. \A e \in Conns : Kept(e)'
    BY <1>13, <2>6, <2>7, <2>8
  <2>10. \A e \in Conns \ {c} : pcb'[e].state = "syn" => pcb[e].state = "syn"
    <3>1. pcb'[v].state = "free"
      BY <1>2, <2>2, <2>3, <2>5, Blank
    <3> QED
      BY <2>8, <3>1
  <2>11. /\ pcb' \in [Conns -> PcbType] /\ netconn' \in [Conns -> NetconnType]
         /\ pbufs' \in [Conns -> Nat]
    <3>1. NewPcb \in PcbType
      BY Blank
    <3> QED
      BY <1>2, <2>2, <2>4, <2>5, <3>1
  <2> QED
    BY <1>12, <2>9, <2>10, <2>11
<1> QED
  BY <1>14, <1>15

-----------------------------------------------------------------------------
(* The invariant and what follows from it.                                 *)

\* Every step keeps the invariant.
LEMMA NextStep ==
  ASSUME IInv, Next
  PROVE  IInv'
<1>1. CASE Thread
  BY <1>1, ThreadStep
<1>2. CASE Requests
  BY <1>2, RequestsStep
<1>3. ASSUME NEW c \in Conns, Client(c)
      PROVE  IInv'
  BY <1>3, SynStep, HandshakeStep, ResetStep, SegmentStep DEF Client
<1>4. ASSUME NEW c \in Conns, Timer(c)
      PROVE  IInv'
  BY <1>4, FastTimerStep, PollStep, SlowTimerStep DEF Timer
<1> QED
  BY <1>1, <1>2, <1>3, <1>4 DEF Next

\* So does a step of something else.
LEMMA StillStep ==
  ASSUME IInv, UNCHANGED vars
  PROVE  IInv'
<1>1. /\ pcb' = pcb /\ netconn' = netconn /\ pbufs' = pbufs /\ leaked' = leaked
      /\ acceptmbox' = acceptmbox /\ at' = at /\ serving' = serving /\ buf' = buf
      /\ part' = part /\ posted' = posted /\ sent' = sent /\ fin' = fin
  BY DEF vars, web
<1>2. ThreadInv' /\ AcceptInv' /\ Unheard'
  BY <1>1 DEF IInv, ThreadInv, AcceptInv, Unheard
<1>3. ASSUME NEW c \in Conns
      PROVE  Kept(c)'
  <2>1. /\ Conn(c)' = Conn(c) /\ Role(c)' = Role(c) /\ Asked(c)' = Asked(c)
        /\ Held(c)' = Held(c) /\ Said(c)' = Said(c) /\ sent'[c] = sent[c]
    BY <1>1 DEF Conn, Role, Asked, Held, Said, Queued
  <2> QED
    BY <2>1, Now DEF Kept
<1> QED
  BY <1>1, <1>2, <1>3 DEF IInv

\* It holds at the start.
LEMMA InitHolds ==
  ASSUME Init
  PROVE  IInv
<1>1. /\ pcb \in [Conns -> PcbType] /\ netconn \in [Conns -> NetconnType]
      /\ pbufs \in [Conns -> Nat] /\ leaked \in 0 .. PoolSize
      /\ sent \in [Conns -> 0 .. MaxSegs] /\ fin \in [Conns -> BOOLEAN]
  BY Blank, Sizes DEF Init
<1>2. ThreadInv
  BY DEF Init, ThreadInv
<1>3. AcceptInv
  BY EmptySeq, Sizes DEF Init, AcceptInv
<1>4. Unheard
  BY DEF Init, Unheard
<1>5. ASSUME NEW c \in Conns
      PROVE  Kept(c)
  <2> DEFINE x == Conn(c)
  <2>1. x = [p |-> NoPcb, n |-> NoNetconn, b |-> 0, lost |-> 0]
    BY DEF Init, Conn
  <2>2. x \in ConnType /\ x.p = NoPcb /\ x.n = NoNetconn /\ x.b = 0
    BY <2>1, Blank, Values DEF ConnType
  <2>3. Role(c) = "free" /\ Asked(c) = 0 /\ Held(c) = 0 /\ Said(c) = 0 /\ sent[c] = 0
    <3>1. c # "nobody"
      BY Sizes
    <3>2. ~Queued(c)
      <4>1. acceptmbox = <<>> /\ Len(<<>>) = 0
        BY DataInEmpty DEF Init
      <4> QED
        BY <4>1 DEF Queued
    <3> QED
      BY <3>1, <3>2 DEF Init, Role, Asked, Held, Said
  <2> HIDE DEF x
  <2>4. NetconnInv(x.n, "free", 0)
    BY <2>2, Blank, DataInEmpty, Sizes DEF NetconnInv, Early, Asking
  <2>5. PcbInv(x.p, x.n, 0, 0, 0)
    BY <2>2, Blank DEF PcbInv
  <2>6. CountInv(x, "free", 0, 0, 0, 0, 0, 0)
    BY <2>2, Blank, DataInEmpty DEF CountInv
  <2>7. EarlyInv(x, "free", 0, 0, 0, 0)
    BY DEF EarlyInv, Early
  <2>8. ConnInv(x, Role(c), Asked(c), Held(c), sent[c], Said(c), 0, 0)
    BY <2>2, <2>3, <2>4, <2>5, <2>6, <2>7 DEF ConnInv
  <2> QED
    BY <2>8 DEF Kept, x
<1> QED
  BY <1>1, <1>2, <1>3, <1>4, <1>5 DEF IInv

\* What every reachable state of the web server has in common, one connection
\* at a time (Kept) and of the web thread and its mailbox.
THEOREM Inductive == Spec => []IInv
<1>1. Init => IInv
  BY InitHolds
<1>2. IInv /\ [Next]_vars => IInv'
  BY NextStep, StillStep
<1> QED
  BY <1>1, <1>2, PTL DEF Spec

\* The web thread is never told that all netconns are in use, as the mailbox it
\* accepts from is full first (http_server_netconn_thread()); that the heap, which
\* netconn_alloc() needs too, fails nobody is part of the model, not of the proof.
THEOREM NeverEnds == Spec => []ServerRuns
<1>1. IInv => ServerRuns
  BY DEF IInv, ThreadInv, ServerRuns, Asking
<1> QED
  BY <1>1, Inductive, PTL

\* A request of the web thread is in one place, and nothing is left of it once
\* it is answered (current_msg and op_completed, api_msg.c).
THEOREM Answers == Spec => []AnsweredOnce
<1>1. IInv => AnsweredOnce
  <2> SUFFICES ASSUME IInv
               PROVE  AnsweredOnce
    OBVIOUS
  <2>1. Waiting <=> at \in Asking
    BY DEF Waiting, Asking
  <2>2. posted \in BOOLEAN /\ (posted => at \in Asking)
    BY DEF IInv, ThreadInv
  <2>3. ASSUME Waiting
        PROVE  Bit(posted) + Bit(netconn[serving].msg) + netconn[serving].done = 1
    <3>1. serving \in Conns
      BY <2>1, <2>3 DEF IInv, ThreadInv, Asking
    <3> PICK c \in Conns : c = serving
      BY <3>1
    <3>2. ConnInv(Conn(c), at, Asked(c), Held(c), sent[c], Said(c), 0, 0)
          /\ Conn(c).n = netconn[c] /\ Asked(c) \in 0 .. 1
      BY ServedNow
    <3>3. Conn(c).n \in NetconnType /\ NetconnInv(Conn(c).n, at, Asked(c))
      BY <3>2, Parts DEF ConnInv
    <3>4. netconn[c].done \in 0 .. 1
      BY <3>2, <3>3, Values DEF NetconnType
    <3>5. CASE posted
      <4>1. Asked(c) = 1 /\ Bit(posted) = 1
        BY <3>5 DEF Asked, Bit
      <4>2. ~netconn[c].msg /\ netconn[c].done = 0
        BY <3>2, <3>3, <4>1 DEF NetconnInv
      <4>3. Bit(netconn[c].msg) = 0
        BY <4>2 DEF Bit
      <4> QED
        BY <4>1, <4>2, <4>3
    <3>6. CASE ~posted
      <4>1. Asked(c) = 0 /\ Bit(posted) = 0
        BY <3>6 DEF Asked, Bit
      <4>2. netconn[c].msg <=> netconn[c].done = 0
        BY <2>1, <2>3, <3>2, <3>3, <4>1 DEF NetconnInv
      <4>3. netconn[c].msg => Bit(netconn[c].msg) = 1
        BY DEF Bit
      <4>4. ~netconn[c].msg => Bit(netconn[c].msg) = 0
        BY DEF Bit
      <4>5. CASE netconn[c].msg
        <5>1. netconn[c].done = 0
          BY <4>2, <4>5
        <5>2. Bit(netconn[c].msg) = 1
          BY <4>5 DEF Bit
        <5> QED
          BY <4>1, <5>1, <5>2
      <4>6. CASE ~netconn[c].msg
        BY <3>4, <4>1, <4>2, <4>4, <4>6
      <4> QED
        BY <4>5, <4>6
    <3> QED
      BY <3>5, <3>6
  <2>4. ASSUME NEW c \in Conns, ~(Waiting /\ c = serving)
        PROVE  ~netconn[c].msg /\ netconn[c].done = 0
    <3>1. ConnInv(Conn(c), Role(c), Asked(c), Held(c), sent[c], Said(c), 0, 0)
          /\ Conn(c).n = netconn[c]
      BY Now
    <3>2. Role(c) \notin Asking
      BY <2>1, <2>4 DEF Role, Asking
    <3> QED
      BY <3>1, <3>2 DEF ConnInv, NetconnInv
  <2> QED
    BY <2>1, <2>2, <2>3, <2>4 DEF AnsweredOnce
<1> QED
  BY <1>1, Inductive, PTL

\* A pcb and a netconn know each other or neither does, but for a close that is
\* lost; a netconn is in use as long as somebody has it (netconn_free() in
\* api_msg.c, tcp_arg() and the callbacks of tcp.c).
THEOREM Pointers == Spec => []PointersAgree
<1>1. IInv => PointersAgree
  <2> SUFFICES ASSUME IInv, NEW c \in Conns
               PROVE  /\ netconn[c].used <=> Queued(c) \/ serving = c
                      /\ pcb[c].owned => netconn[c].used /\ netconn[c].pcb
                      /\ netconn[c].pcb /\ ~CloseLost(c) => pcb[c].owned /\ pcb[c].state \in Active
    BY DEF PointersAgree
  <2>1. /\ ConnInv(Conn(c), Role(c), Asked(c), Held(c), sent[c], Said(c), 0, 0)
        /\ Conn(c).p = pcb[c] /\ Conn(c).n = netconn[c]
    BY Now
  <2>2. Role(c) # "free" <=> Queued(c) \/ serving = c
    <3>1. serving = c => Role(c) \in Asking \cup {"check", "fetch"}
      BY RoleTypes DEF IInv
    <3> QED
      BY <3>1 DEF Role, Asking
  <2>3. netconn[c].used <=> Role(c) # "free"
    BY <2>1 DEF ConnInv, NetconnInv
  <2>4. pcb[c].owned => netconn[c].pcb
    BY <2>1 DEF ConnInv, PcbInv
  <2>5. netconn[c].pcb => netconn[c].used
    <3>1. NetconnInv(netconn[c], Role(c), Asked(c))
      BY <2>1 DEF ConnInv
    <3>2. ~netconn[c].used => netconn[c] = NoNetconn
      BY <3>1 DEF NetconnInv
    <3> QED
      BY <3>2, Blank
  <2>6. netconn[c].pcb /\ ~CloseLost(c) => pcb[c].owned /\ pcb[c].state \in Active
    BY <2>1 DEF ConnInv, PcbInv, CloseLost
  <2> QED
    BY <2>2, <2>3, <2>4, <2>5, <2>6
<1> QED
  BY <1>1, Inductive, PTL

\* Every pbuf that was received and not freed is in one place, until netbuf_delete().
THEOREM Pbufs == Spec => []PbufsAccounted
<1>1. IInv => PbufsAccounted
  <2> SUFFICES ASSUME IInv, NEW c \in Conns
               PROVE  pbufs[c] = pcb[c].refused + DataIn(netconn[c].recvmbox)
                                   + Bit(serving = c /\ buf = "data")
    BY DEF PbufsAccounted
  <2>1. /\ ConnInv(Conn(c), Role(c), Asked(c), Held(c), sent[c], Said(c), 0, 0)
        /\ Conn(c).p = pcb[c] /\ Conn(c).n = netconn[c] /\ Conn(c).b = pbufs[c]
    BY Now
  <2>2. pbufs[c] = pcb[c].refused + DataIn(netconn[c].recvmbox) + Held(c) + 0
    BY <2>1 DEF ConnInv, CountInv
  <2>3. Held(c) = Bit(serving = c /\ buf = "data")
    BY DEF Held, Bit
  <2>4. pcb[c].refused \in 0 .. 1 /\ DataIn(netconn[c].recvmbox) \in Nat /\ Held(c) \in 0 .. 1
    BY <2>1, Parts, RoleTypes DEF ConnInv, IInv
  <2> QED
    BY <2>2, <2>3, <2>4
<1> QED
  BY <1>1, Inductive, PTL

\* The window closes only for what is refused, in the mailbox, or about to be
\* given back by tcp_recved().
THEOREM Window == Spec => []WindowKept
<1>1. IInv => WindowKept
  <2> SUFFICES ASSUME IInv, NEW c \in Conns, pcb[c].owned, ~pcb[c].rxClosed
               PROVE  pcb[c].unread = pcb[c].refused + Bit(pcb[c].refusedFin)
                                        + DataIn(netconn[c].recvmbox)
                                        + Bit(serving = c /\ buf = "data" /\ at = "recved" /\ posted)
    BY DEF WindowKept
  <2>1. /\ ConnInv(Conn(c), Role(c), Asked(c), Held(c), sent[c], Said(c), 0, 0)
        /\ Conn(c).p = pcb[c] /\ Conn(c).n = netconn[c]
    BY Now
  <2>2. pcb[c].unread = pcb[c].refused + Bit(pcb[c].refusedFin) + DataIn(netconn[c].recvmbox)
                          + Due(Role(c), Asked(c), Held(c)) + 0 + 0
    BY <2>1 DEF ConnInv, CountInv
  <2>3. Due(Role(c), Asked(c), Held(c))
          = Bit(serving = c /\ buf = "data" /\ at = "recved" /\ posted)
    <3>1. CASE serving = c /\ buf = "data" /\ at = "recved" /\ posted
      BY <3>1 DEF Due, Role, Asked, Held, Bit
    <3>2. CASE ~(serving = c /\ buf = "data" /\ at = "recved" /\ posted)
      <4>1. Role(c) # "recved" \/ Asked(c) # 1 \/ Held(c) # 1
        BY <3>2 DEF Role, Asked, Held
      <4> QED
        BY <3>2, <4>1 DEF Due, Bit
    <3> QED
      BY <3>1, <3>2
  <2>4. /\ pcb[c].refused \in 0 .. 1 /\ DataIn(netconn[c].recvmbox) \in Nat
        /\ Bit(pcb[c].refusedFin) \in 0 .. 1 /\ Due(Role(c), Asked(c), Held(c)) \in 0 .. 1
    BY <2>1, Parts, BitType DEF ConnInv
  <2> QED
    BY <2>2, <2>3, <2>4
<1> QED
  BY <1>1, Inductive, PTL

\* The web thread waits at an empty mailbox only for a client with nothing said:
\* an error between its look at last_err and its wait leaves NULL there to find
\* (err_tcp() and netconn_recv_data()).
THEOREM Hears == Spec => []NeverDeaf
<1>1. IInv => NeverDeaf
  <2> SUFFICES ASSUME IInv, at = "fetch", netconn[serving].recvmbox = <<>>
               PROVE  pcb[serving].state = "est" /\ sent[serving] = 0
    BY DEF NeverDeaf
  <2>1. serving \in Conns
    BY DEF IInv, ThreadInv
  <2> PICK c \in Conns : c = serving
    BY <2>1
  <2>2. /\ ConnInv(Conn(c), at, Asked(c), Held(c), sent[c], Said(c), 0, 0)
        /\ Conn(c).p = pcb[c] /\ Conn(c).n = netconn[c]
    BY ServedNow
  <2>3. at \in Early
    BY DEF Early
  <2>4. EarlyInv(Conn(c), at, sent[c], Said(c), 0, 0)
    BY <2>2 DEF ConnInv
  <2> QED
    BY <2>2, <2>3, <2>4 DEF EarlyInv
<1> QED
  BY <1>1, Inductive, PTL

\* Types: what a client sends bounds what is unread and what is held.
THEOREM Types == Spec => []TypeOK
<1>1. IInv => TypeOK
  <2> SUFFICES ASSUME IInv
               PROVE  TypeOK
    OBVIOUS
  <2>1. /\ pcb \in [Conns -> PcbType] /\ netconn \in [Conns -> NetconnType]
        /\ pbufs \in [Conns -> Nat] /\ leaked \in 0 .. PoolSize
        /\ sent \in [Conns -> 0 .. MaxSegs] /\ fin \in [Conns -> BOOLEAN]
    BY DEF IInv
  <2>2. ASSUME NEW c \in Conns
        PROVE  /\ pcb[c].unread \in 0 .. MaxSegs + 1 /\ pbufs[c] \in 0 .. MaxSegs
               /\ Len(netconn[c].recvmbox) <= RecvSize
    <3>1. /\ ConnInv(Conn(c), Role(c), Asked(c), Held(c), sent[c], Said(c), 0, 0)
          /\ Conn(c).p = pcb[c] /\ Conn(c).n = netconn[c] /\ Conn(c).b = pbufs[c]
          /\ sent[c] \in Nat /\ sent[c] <= MaxSegs
      BY Now
    <3>2. pbufs[c] <= sent[c] /\ pcb[c].unread <= sent[c] + Said(c)
          /\ Len(netconn[c].recvmbox) <= RecvSize
      BY <3>1 DEF ConnInv, CountInv, NetconnInv
    <3>3. Said(c) \in 0 .. 1 /\ pcb[c].unread \in Nat /\ pbufs[c] \in Nat
      BY <3>1, Parts, RoleTypes DEF ConnInv, IInv
    <3> QED
      BY <3>1, <3>2, <3>3, Sizes
  <2>3. pcb \in [Conns -> [state : Active \cup {"free", "timewait"}, owned : BOOLEAN,
                           rxClosed : BOOLEAN, closePend : BOOLEAN, refused : 0 .. 1,
                           refusedFin : BOOLEAN, unread : 0 .. MaxSegs + 1,
                           inflight : 0 .. SndBuf]]
    <3> DEFINE T == [state : Active \cup {"free", "timewait"}, owned : BOOLEAN,
                     rxClosed : BOOLEAN, closePend : BOOLEAN, refused : 0 .. 1,
                     refusedFin : BOOLEAN, unread : 0 .. MaxSegs + 1, inflight : 0 .. SndBuf]
    <3>1. ASSUME NEW c \in Conns
          PROVE  pcb[c] \in T
      <4>1. pcb[c] \in PcbType /\ pcb[c].unread \in 0 .. MaxSegs + 1
        BY <2>1, <2>2
      <4> QED
        BY <4>1 DEF PcbType, PcbStates, Bits, Inflight
    <3> HIDE DEF T
    <3>2. pcb \in [Conns -> T]
      BY <2>1, <3>1
    <3> QED
      BY <3>2 DEF T
  <2>4. ASSUME NEW c \in Conns
        PROVE  /\ netconn[c].recvmbox \in Seq({"data", "eof"})
               /\ Len(netconn[c].recvmbox) <= RecvSize
               /\ [netconn[c] EXCEPT !.recvmbox = <<>>] \in
                    [used : BOOLEAN, pcb : BOOLEAN, fatal : BOOLEAN,
                     state : {"none", "write", "close"}, valid : BOOLEAN, recvmbox : {<<>>},
                     msg : BOOLEAN, left : 0 .. BodyLen + 1, shut : {"none", "rd", "rdwr"},
                     polls : 0 .. PollsLeft, done : 0 .. 1]
    <3>1. netconn[c] \in NetconnType
      BY <2>1
    <3>2. netconn[c].recvmbox \in Seq({"data", "eof"})
      BY <3>1 DEF NetconnType, Mailboxes, MailType
    <3>3. [netconn[c] EXCEPT !.recvmbox = <<>>] \in
            [used : BOOLEAN, pcb : BOOLEAN, fatal : BOOLEAN,
             state : Operations, valid : BOOLEAN, recvmbox : {<<>>},
             msg : BOOLEAN, left : Lengths, shut : Halves, polls : PollCounts, done : Bits]
      BY <3>1 DEF NetconnType
    <3> QED
      BY <2>2, <3>2, <3>3 DEF Operations, Lengths, Halves, PollCounts, Bits
  <2>5. pbufs \in [Conns -> 0 .. MaxSegs]
    BY <2>1, <2>2
  <2>6. acceptmbox \in Seq(Conns \cup {"aborted"}) /\ Len(acceptmbox) <= AcceptSize
    <3>1. acceptmbox \in Seq(Conns) /\ Len(acceptmbox) <= AcceptSize
      BY DEF IInv, AcceptInv
    <3>2. \A i \in 1 .. Len(acceptmbox) : acceptmbox[i] \in Conns \cup {"aborted"}
      BY <3>1, ElementOfSeq
    <3>3. Len(acceptmbox) \in Nat /\ acceptmbox = [i \in 1 .. Len(acceptmbox) |-> acceptmbox[i]]
      BY <3>1, LenProperties
    <3> QED
      BY <3>1, <3>2, <3>3, IsASeq
  <2>7. /\ at \in {"accept", "check", "fetch", "recved", "shut", "write", "close",
                   "delete", "ended"}
        /\ serving \in Conns \cup {"nobody"} /\ buf \in {"none", "data", "eof"}
        /\ part \in {"none", "header", "body"} /\ posted \in BOOLEAN
    BY DEF IInv, ThreadInv, Asking
  <2> QED
    BY <2>1, <2>3, <2>4, <2>5, <2>6, <2>7 DEF TypeOK
<1> QED
  BY <1>1, Inductive, PTL

=============================================================================
