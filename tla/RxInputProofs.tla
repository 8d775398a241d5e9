--------------------------- MODULE RxInputProofs ---------------------------
(***************************************************************************)
(* That no pbuf and no message is lost or used twice between the receive   *)
(* interrupt and tcpip_thread, for any number of pbufs, connections,       *)
(* datagrams and messages.                                                 *)
(***************************************************************************)
EXTENDS RxInputProps, FiniteSetTheorems, TLAPS

USE SizeAssumption

\* A pbuf is with a connection, out of order or refused, or forgotten by it; on
\* the list of a datagram, in a message of the mailbox.
InTcp(b)   == b \in leaked \/ \E c \in Pcbs : b \in ooseq[c] \/ b \in refused[c]
InReass(b) == \E d \in Datagrams : b \in reass[d]
InMbox(b)  == \E i \in 1 .. Len(mbox) : b \in mbox[i].p

Somewhere(b) ==
  b \in pool \/ b \in hand \/ b \in kept \/ InTcp(b) \/ InReass(b) \/ InMbox(b)

Once(b) ==
  /\ b \in pool => b \notin hand /\ b \notin kept /\ ~InTcp(b) /\ ~InReass(b) /\ ~InMbox(b)
  /\ b \in hand => b \notin kept /\ ~InTcp(b) /\ ~InReass(b) /\ ~InMbox(b)
  /\ b \in kept => ~InTcp(b) /\ ~InReass(b) /\ ~InMbox(b)
  /\ InTcp(b) => ~InReass(b) /\ ~InMbox(b)
  /\ InReass(b) => ~InMbox(b)

Placed == \A b \in Pbufs : Somewhere(b) /\ Once(b)

\* The lists of one kind have nothing in common.
TcpApart ==
  \A c, e \in Pcbs : \A b \in Pbufs :
    /\ b \in ooseq[c] /\ b \in ooseq[e] => c = e
    /\ b \in refused[c] /\ b \in refused[e] => c = e
    /\ ~(b \in ooseq[c] /\ b \in refused[e])
    /\ b \in leaked => b \notin ooseq[c] /\ b \notin refused[c]
ReassApart == \A d, e \in Datagrams : \A b \in Pbufs : b \in reass[d] /\ b \in reass[e] => d = e
MboxApart  == \A i, j \in 1 .. Len(mbox) : \A b \in Pbufs : b \in mbox[i].p /\ b \in mbox[j].p => i = j

Apart == TcpApart /\ ReassApart /\ MboxApart

\* tcpip_thread holds pbufs only while it handles a packet or frees a chain.
HandInv ==
  /\ at \in {"fetch", "reclaim", "done"} => hand = {}
  /\ at = "handle" => type # "TIMER" /\ (type # "INPKT" => hand = {})

\* The messages of one type in the mailbox.
Queued(t) == {i \in 1 .. Len(mbox) : mbox[i].type = t}

\* A message is free, in the mailbox or being handled, and a callback is queued
\* or begun when the flag says so: never more than one.
Handling(t) == IF at # "fetch" /\ type = t THEN 1 ELSE 0

Accounted ==
  /\ inpkt + Cardinality(Queued("INPKT")) + Handling("INPKT") = NumInpkt
  /\ msgapi + Cardinality(Queued("CALLBACK")) + Handling("CALLBACK") = NumMsgApi
  /\ Cardinality(Queued("API")) + Handling("API") = IF asked = "queued" THEN 1 ELSE 0

PendingCounts ==
  Cardinality(Queued("CALLBACK")) + (IF at = "handle" /\ type = "CALLBACK" THEN 1 ELSE 0)
    = IF pending THEN 1 ELSE 0

IInv == TypeOK /\ Placed /\ Apart /\ HandInv /\ Accounted /\ PendingCounts

-----------------------------------------------------------------------------
(* The mailbox.                                                            *)

LEMMA QueuedFinite ==
  ASSUME TypeOK, NEW t
  PROVE  IsFiniteSet(Queued(t)) /\ Cardinality(Queued(t)) \in Nat /\ Cardinality(Queued(t)) <= Len(mbox)
<1>1. Len(mbox) \in Nat
  BY DEF TypeOK
<1>2. IsFiniteSet(1 .. Len(mbox)) /\ Cardinality(1 .. Len(mbox)) = Len(mbox)
  <2>0. 1 \in Int /\ Len(mbox) \in Int
    BY <1>1
  <2>1. /\ IsFiniteSet(1 .. Len(mbox))
        /\ Cardinality(1 .. Len(mbox)) = IF 1 > Len(mbox) THEN 0 ELSE Len(mbox) - 1 + 1
    BY <2>0, FS_Interval, Zenon
  <2> QED
    BY <1>1, <2>1
<1>3. Queued(t) \subseteq 1 .. Len(mbox)
  BY DEF Queued
<1>4. IsFiniteSet(Queued(t)) /\ Cardinality(Queued(t)) <= Cardinality(1 .. Len(mbox))
  BY <1>2, <1>3, FS_Subset
<1> QED
  BY <1>2, <1>4, FS_CardinalityType

\* A message that is posted is the last, and one more of its type.
LEMMA Posted ==
  ASSUME TypeOK, NEW m \in Messages, mbox' = Append(mbox, m)
  PROVE  /\ \A t : Cardinality(Queued(t))' = Cardinality(Queued(t)) + (IF m.type = t THEN 1 ELSE 0)
         /\ Len(mbox)' = Len(mbox) + 1
         /\ \A i \in 1 .. Len(mbox) : mbox'[i] = mbox[i]
         /\ mbox'[Len(mbox) + 1] = m
         /\ mbox' \in Seq(Messages)
<1>1. /\ Len(mbox) \in Nat /\ Len(mbox)' = Len(mbox) + 1
      /\ \A i \in 1 .. Len(mbox) : mbox'[i] = mbox[i]
      /\ mbox'[Len(mbox) + 1] = m
      /\ mbox' \in Seq(Messages)
  BY DEF TypeOK
<1>2. ASSUME NEW t
      PROVE  Cardinality(Queued(t))' = Cardinality(Queued(t)) + (IF m.type = t THEN 1 ELSE 0)
  <2>1. CASE m.type = t
    <3>1. Queued(t)' = Queued(t) \cup {Len(mbox) + 1} /\ Len(mbox) + 1 \notin Queued(t)
      BY <1>1, <2>1 DEF Queued
    <3> QED
      BY <2>1, <3>1, QueuedFinite, FS_AddElement
  <2>2. CASE m.type # t
    <3>1. Queued(t)' = Queued(t)
      BY <1>1, <2>2 DEF Queued
    <3> QED
      BY <2>2, <3>1, QueuedFinite
  <2> QED
    BY <2>1, <2>2
<1> QED
  BY <1>1, <1>2

\* The first message is taken, and the others move up.
LEMMA Taken ==
  ASSUME TypeOK, mbox # <<>>, mbox' = Tail(mbox)
  PROVE  /\ \A t : Cardinality(Queued(t)) = Cardinality(Queued(t)') + (IF Head(mbox).type = t THEN 1 ELSE 0)
         /\ Len(mbox)' = Len(mbox) - 1 /\ Len(mbox) \in Nat \ {0}
         /\ \A i \in 1 .. Len(mbox) - 1 : mbox'[i] = mbox[i + 1]
         /\ Head(mbox) = mbox[1] /\ Head(mbox) \in Messages
         /\ mbox' \in Seq(Messages)
         /\ \A t : Cardinality(Queued(t)') \in Nat
<1>1. /\ Len(mbox)' = Len(mbox) - 1 /\ Len(mbox) \in Nat \ {0}
      /\ \A i \in 1 .. Len(mbox) - 1 : mbox'[i] = mbox[i + 1]
      /\ Head(mbox) = mbox[1] /\ Head(mbox) \in Messages
      /\ mbox' \in Seq(Messages)
  BY DEF TypeOK
<1>2. ASSUME NEW t
      PROVE  /\ Cardinality(Queued(t)) = Cardinality(Queued(t)') + (IF Head(mbox).type = t THEN 1 ELSE 0)
             /\ Cardinality(Queued(t)') \in Nat
  <2> DEFINE Rest == Queued(t) \ {1}
             up == [i \in Rest |-> i - 1]
  <2>1. up \in Bijection(Rest, Queued(t)')
    <3>1. up \in [Rest -> Queued(t)']
      BY <1>1 DEF Queued
    <3>2. \A i, j \in Rest : up[i] = up[j] => i = j
      BY DEF Queued
    <3>3. ASSUME NEW j \in Queued(t)' PROVE \E i \in Rest : up[i] = j
      <4>1. j + 1 \in Rest
        BY <1>1 DEF Queued
      <4>2. up[j + 1] = j
        BY <4>1 DEF Queued
      <4> QED
        BY <4>1, <4>2
    <3> HIDE DEF up
    <3> QED
      BY <3>1, <3>2, <3>3 DEF Bijection, Injection, Surjection, IsInjective
  <2>2. IsFiniteSet(Rest) /\ Cardinality(Rest) = Cardinality(Queued(t)) - (IF Head(mbox).type = t THEN 1 ELSE 0)
    <3>1. 1 \in Queued(t) <=> Head(mbox).type = t
      BY <1>1 DEF Queued
    <3>2. IsFiniteSet(Queued(t)) /\ Cardinality(Queued(t)) \in Nat
      BY QueuedFinite
    <3>3. /\ IsFiniteSet(Rest)
          /\ Cardinality(Rest)
               = IF 1 \in Queued(t) THEN Cardinality(Queued(t)) - 1 ELSE Cardinality(Queued(t))
      BY <3>2, FS_RemoveElement
    <3> HIDE DEF Rest
    <3> QED
      BY <3>1, <3>2, <3>3
  <2>3. Cardinality(Rest) = Cardinality(Queued(t)')
    <3> HIDE DEF Rest, up
    <3> QED
      BY <2>1, <2>2, FS_Bijection DEF ExistsBijection
  <2>4. Cardinality(Rest) \in Nat
    BY <2>2, FS_CardinalityType
  <2> HIDE DEF Rest
  <2> QED
    BY <2>2, <2>3, <2>4, QueuedFinite
<1> QED
  BY <1>1, <1>2

\* The pbufs of a message are in the mailbox once it is posted ...
LEMMA PostedPbufs ==
  ASSUME TypeOK, MboxApart, NEW m \in Messages, mbox' = Append(mbox, m),
         \A b \in m.p : ~InMbox(b)
  PROVE  /\ \A b \in Pbufs : InMbox(b)' <=> InMbox(b) \/ b \in m.p
         /\ MboxApart'
<1> Len(mbox) \in Nat
  BY DEF TypeOK
<1>1. /\ Len(mbox)' = Len(mbox) + 1
      /\ \A i \in 1 .. Len(mbox) : mbox'[i] = mbox[i]
      /\ mbox'[Len(mbox) + 1] = m
  BY Posted
<1>2. ASSUME NEW b \in Pbufs PROVE InMbox(b)' <=> InMbox(b) \/ b \in m.p
  BY <1>1 DEF InMbox
<1>3. ASSUME NEW i \in (1 .. Len(mbox))', NEW j \in (1 .. Len(mbox))', NEW b \in Pbufs,
             b \in mbox'[i].p, b \in mbox'[j].p
      PROVE  i = j
  <2>1. CASE i \in 1 .. Len(mbox) /\ j \in 1 .. Len(mbox)
    BY <1>1, <1>3, <2>1 DEF MboxApart
  <2>2. CASE i = Len(mbox) + 1 /\ j \in 1 .. Len(mbox)
    BY <1>1, <1>3, <2>2 DEF InMbox
  <2>3. CASE i \in 1 .. Len(mbox) /\ j = Len(mbox) + 1
    BY <1>1, <1>3, <2>3 DEF InMbox
  <2> QED
    BY <1>1, <2>1, <2>2, <2>3
<1> QED
  BY <1>2, <1>3 DEF MboxApart

\* ... and leave it with the message.
LEMMA TakenPbufs ==
  ASSUME TypeOK, MboxApart, mbox # <<>>, mbox' = Tail(mbox)
  PROVE  /\ \A b \in Pbufs : InMbox(b) <=> InMbox(b)' \/ b \in Head(mbox).p
         /\ \A b \in Pbufs : ~(InMbox(b)' /\ b \in Head(mbox).p)
         /\ MboxApart'
<1>1. /\ Len(mbox)' = Len(mbox) - 1 /\ Len(mbox) \in Nat \ {0}
      /\ \A i \in 1 .. Len(mbox) - 1 : mbox'[i] = mbox[i + 1]
      /\ Head(mbox) = mbox[1]
  BY Taken
<1>2. ASSUME NEW b \in Pbufs
      PROVE  /\ InMbox(b) <=> InMbox(b)' \/ b \in Head(mbox).p
             /\ ~(InMbox(b)' /\ b \in Head(mbox).p)
  <2>1. ASSUME InMbox(b) PROVE InMbox(b)' \/ b \in Head(mbox).p
    <3>1. PICK i \in 1 .. Len(mbox) : b \in mbox[i].p
      BY <2>1 DEF InMbox
    <3>2. CASE i # 1
      <4>1. i - 1 \in (1 .. Len(mbox))' /\ mbox'[i - 1] = mbox[i]
        BY <1>1, <3>2
      <4> QED
        BY <3>1, <4>1 DEF InMbox
    <3> QED
      BY <1>1, <3>1, <3>2
  <2>2. ASSUME InMbox(b)' PROVE InMbox(b) /\ b \notin Head(mbox).p
    <3>1. PICK i \in 1 .. Len(mbox) - 1 : b \in mbox'[i].p
      BY <1>1, <2>2 DEF InMbox
    <3>2. i + 1 \in 1 .. Len(mbox) /\ b \in mbox[i + 1].p /\ i + 1 # 1 /\ 1 \in 1 .. Len(mbox)
      BY <1>1, <3>1
    <3> QED
      BY <1>1, <3>2 DEF InMbox, MboxApart
  <2>3. b \in Head(mbox).p => InMbox(b)
    BY <1>1 DEF InMbox
  <2> QED
    BY <2>1, <2>2, <2>3
<1>3. ASSUME NEW i \in (1 .. Len(mbox))', NEW j \in (1 .. Len(mbox))', NEW b \in Pbufs,
             b \in mbox'[i].p, b \in mbox'[j].p
      PROVE  i = j
  <2>1. i + 1 \in 1 .. Len(mbox) /\ j + 1 \in 1 .. Len(mbox)
    BY <1>1
  <2>2. b \in mbox[i + 1].p /\ b \in mbox[j + 1].p
    BY <1>1, <1>3
  <2>3. i + 1 = j + 1
    BY <2>1, <2>2 DEF MboxApart
  <2> QED
    BY <1>1, <2>3
<1> QED
  BY <1>2, <1>3 DEF MboxApart

-----------------------------------------------------------------------------
(* What a step leaves alone.                                               *)

LEMMA SameTcp ==
  UNCHANGED tcp => (\A b : InTcp(b)' <=> InTcp(b)) /\ (TcpApart' <=> TcpApart)
BY DEF tcp, InTcp, TcpApart

LEMMA SameReass ==
  UNCHANGED reass => (\A b : InReass(b)' <=> InReass(b)) /\ (ReassApart' <=> ReassApart)
BY DEF InReass, ReassApart

LEMMA SameMbox ==
  UNCHANGED mbox => /\ \A b : InMbox(b)' <=> InMbox(b)
                    /\ MboxApart' <=> MboxApart
                    /\ \A t : Queued(t)' = Queued(t)
BY DEF InMbox, MboxApart, Queued

\* While a message or a timer is handled the counts stay.
LEMMA CountsKept ==
  ASSUME Accounted, PendingCounts, UNCHANGED <<inpkt, msgapi, mbox, pending>>,
         asked' = "queued" <=> asked = "queued",
         IF at = "fetch" THEN type' = "TIMER" ELSE type' = type,
         at' # "fetch", (at # "handle" /\ at' # "handle") \/ type' # "CALLBACK"
  PROVE  Accounted' /\ PendingCounts'
<1>1. /\ Handling("INPKT")' = Handling("INPKT") /\ Handling("API")' = Handling("API")
      /\ Handling("CALLBACK")' = Handling("CALLBACK")
  BY DEF Handling
<1>2. /\ Queued("INPKT")' = Queued("INPKT") /\ Queued("API")' = Queued("API")
      /\ Queued("CALLBACK")' = Queued("CALLBACK")
  BY SameMbox
<1>3. Accounted'
  BY <1>1, <1>2 DEF Accounted
<1>4. PendingCounts'
  BY <1>2 DEF PendingCounts
<1> QED
  BY <1>3, <1>4

\* What connection c holds is replaced by o and left, and l is forgotten, of what
\* it held and what no connection did.
LEMMA TcpLoses ==
  ASSUME TypeOK, TcpApart, NEW c \in Pcbs, NEW o \in SUBSET Pbufs, NEW left \in SUBSET Pbufs,
         NEW l \in SUBSET Pbufs, leaked' = leaked \cup l,
         ooseq' = [ooseq EXCEPT ![c] = o], refused' = [refused EXCEPT ![c] = left],
         o \cap left = {}, l \cap (o \cup left) = {},
         \A b \in o \cup left \cup l : b \in ooseq[c] \/ b \in refused[c] \/ ~InTcp(b)
  PROVE  /\ ooseq' \in [Pcbs -> SUBSET Pbufs] /\ refused' \in [Pcbs -> SUBSET Pbufs]
         /\ ooseq[c] \in SUBSET Pbufs /\ refused[c] \in SUBSET Pbufs
         /\ TcpApart'
         /\ \A b \in Pbufs : /\ b \in ooseq[c] \/ b \in refused[c] => InTcp(b)
                             /\ ~(b \in ooseq[c] /\ b \in refused[c])
                             /\ InTcp(b)' <=> \/ b \in o \/ b \in left \/ b \in l
                                              \/ InTcp(b) /\ b \notin ooseq[c] /\ b \notin refused[c]
<1>0. ooseq \in [Pcbs -> SUBSET Pbufs] /\ refused \in [Pcbs -> SUBSET Pbufs]
  BY DEF TypeOK
<1>1. /\ ooseq' \in [Pcbs -> SUBSET Pbufs] /\ refused' \in [Pcbs -> SUBSET Pbufs]
      /\ ooseq[c] \in SUBSET Pbufs /\ refused[c] \in SUBSET Pbufs
      /\ ooseq'[c] = o /\ refused'[c] = left
      /\ \A e \in Pcbs : e # c => ooseq'[e] = ooseq[e] /\ refused'[e] = refused[e]
  BY <1>0
<1>2. ASSUME NEW b \in Pbufs, NEW e \in Pcbs, b \in ooseq[e] \/ b \in refused[e],
             b \in ooseq[c] \/ b \in refused[c]
      PROVE  e = c
  BY <1>2 DEF TcpApart
<1>3. ASSUME NEW b \in Pbufs, NEW e \in Pcbs, b \in ooseq[e] \/ b \in refused[e], b \in o \cup left \cup l
      PROVE  e = c
  BY <1>2, <1>3 DEF InTcp
<1>4. TcpApart'
  <2>1. ASSUME NEW e \in Pcbs, NEW f \in Pcbs, NEW b \in Pbufs
        PROVE  /\ b \in ooseq'[e] /\ b \in ooseq'[f] => e = f
               /\ b \in refused'[e] /\ b \in refused'[f] => e = f
               /\ ~(b \in ooseq'[e] /\ b \in refused'[f])
    <3>1. CASE e # c /\ f # c
      BY <1>1, <3>1 DEF TcpApart
    <3>2. CASE e = c /\ f = c
      BY <1>1, <3>2
    <3>3. CASE e = c /\ f # c
      BY <1>1, <1>3, <3>3
    <3>4. CASE e # c /\ f = c
      BY <1>1, <1>3, <3>4
    <3> QED
      BY <3>1, <3>2, <3>3, <3>4
  <2>2. ASSUME NEW e \in Pcbs, NEW b \in Pbufs, b \in leaked'
        PROVE  b \notin ooseq'[e] /\ b \notin refused'[e]
    <3>1. b \in leaked => b \notin ooseq[e] /\ b \notin refused[e] /\ InTcp(b)
      BY DEF TcpApart, InTcp
    <3>2. CASE e # c
      BY <1>1, <1>3, <2>2, <3>1, <3>2
    <3>3. CASE e = c
      BY <1>1, <2>2, <3>1, <3>3
    <3> QED
      BY <3>2, <3>3
  <2> QED
    BY <2>1, <2>2 DEF TcpApart
<1>5. ASSUME NEW b \in Pbufs
      PROVE  /\ b \in ooseq[c] \/ b \in refused[c] => InTcp(b)
             /\ ~(b \in ooseq[c] /\ b \in refused[c])
             /\ InTcp(b)' <=> \/ b \in o \/ b \in left \/ b \in l
                              \/ InTcp(b) /\ b \notin ooseq[c] /\ b \notin refused[c]
  <2>1. b \in ooseq[c] \/ b \in refused[c] => InTcp(b)
    BY DEF InTcp
  <2>2. ~(b \in ooseq[c] /\ b \in refused[c])
    BY DEF TcpApart
  <2>3. ASSUME InTcp(b)', b \notin o, b \notin left, b \notin l
        PROVE  InTcp(b) /\ b \notin ooseq[c] /\ b \notin refused[c]
    <3>1. b \in leaked => b \notin ooseq[c] /\ b \notin refused[c]
      BY DEF TcpApart
    <3>2. CASE b \in leaked
      BY <3>1, <3>2, <2>3 DEF InTcp
    <3>3. CASE b \notin leaked
      BY <1>1, <1>2, <2>3, <3>3 DEF InTcp
    <3> QED
      BY <3>2, <3>3
  <2>4. b \in o \/ b \in left \/ b \in l => InTcp(b)'
    BY <1>1 DEF InTcp
  <2>5. ASSUME InTcp(b), b \notin ooseq[c], b \notin refused[c] PROVE InTcp(b)'
    BY <1>1, <2>5 DEF InTcp
  <2> QED
    BY <2>1, <2>2, <2>3, <2>4, <2>5
<1> QED
  BY <1>1, <1>4, <1>5

\* What connection c holds is replaced by o and left, of what it held and what
\* no connection did; nothing is forgotten.
LEMMA TcpMoves ==
  ASSUME TypeOK, TcpApart, NEW c \in Pcbs, NEW o \in SUBSET Pbufs, NEW left \in SUBSET Pbufs,
         ooseq' = [ooseq EXCEPT ![c] = o], refused' = [refused EXCEPT ![c] = left], UNCHANGED leaked,
         o \cap left = {},
         \A b \in o \cup left : b \in ooseq[c] \/ b \in refused[c] \/ ~InTcp(b)
  PROVE  /\ ooseq' \in [Pcbs -> SUBSET Pbufs] /\ refused' \in [Pcbs -> SUBSET Pbufs]
         /\ ooseq[c] \in SUBSET Pbufs /\ refused[c] \in SUBSET Pbufs
         /\ TcpApart'
         /\ \A b \in Pbufs : /\ b \in ooseq[c] \/ b \in refused[c] => InTcp(b)
                             /\ ~(b \in ooseq[c] /\ b \in refused[c])
                             /\ InTcp(b)' <=> \/ b \in o \/ b \in left
                                              \/ InTcp(b) /\ b \notin ooseq[c] /\ b \notin refused[c]
<1> DEFINE l == {}
<1>1. l \in SUBSET Pbufs /\ leaked' = leaked \cup l /\ l \cap (o \cup left) = {}
  OBVIOUS
<1>2. \A b \in o \cup left \cup l : b \in ooseq[c] \/ b \in refused[c] \/ ~InTcp(b)
  OBVIOUS
<1>3. \A b : b \notin l
  OBVIOUS
<1> HIDE DEF l
<1> QED
  BY <1>1, <1>2, <1>3, TcpLoses

-----------------------------------------------------------------------------
(* Reassembly.                                                             *)

\* What a fragment brings and what it throws out: every pbuf stays in one place.
LEMMA FragmentMoves ==
  ASSUME TypeOK, Placed, ReassApart, Fragment
  PROVE  /\ hand' \in SUBSET Pbufs /\ reass' \in [Datagrams -> SUBSET Pbufs]
         /\ \A b \in Pbufs : b \in hand \/ InReass(b) <=> b \in hand' \/ InReass(b)'
         /\ \A b \in Pbufs : ~(b \in hand' /\ InReass(b)')
         /\ ReassApart'
<1>0. hand \in SUBSET Pbufs /\ reass \in [Datagrams -> SUBSET Pbufs]
  BY DEF TypeOK
<1>1. \A b \in Pbufs : b \in hand => \A d \in Datagrams : b \notin reass[d]
  BY DEF Placed, Once, InReass
<1>2. PICK d \in Datagrams, D \in SUBSET Datagrams :
        /\ d \notin D
        /\ \/ hand' = Of(D) /\ reass' = [Without(D) EXCEPT ![d] = @ \cup hand]
           \/ hand' = Of(D) \cup hand /\ reass' = Without(D)
  BY DEF Fragment, FreeAll
<1>3. \A b : b \in Of(D) <=> \E e \in D : b \in reass[e]
  BY DEF Of
<1>d. d \notin D
  BY <1>2
<1>4. CASE hand' = Of(D) /\ reass' = [Without(D) EXCEPT ![d] = @ \cup hand]
  <2>1. hand' = Of(D) /\ reass' = [Without(D) EXCEPT ![d] = Without(D)[d] \cup hand]
    BY <1>4
  <2>2. reass' = [e \in Datagrams |-> IF e \in D THEN {} ELSE IF e = d THEN reass[d] \cup hand ELSE reass[e]]
    <3>1. Without(D) = [e \in Datagrams |-> IF e \in D THEN {} ELSE reass[e]]
      BY DEF Without
    <3>2. Without(D)[d] = reass[d]
      BY <1>2, <3>1
    <3> QED
      BY <1>2, <2>1, <3>1, <3>2
  <2>3. \A e \in Datagrams : \A b : b \in reass'[e] <=>
          e \notin D /\ (b \in reass[e] \/ (e = d /\ b \in hand))
    <3> TAKE e \in Datagrams
    <3>1. reass'[e] = IF e \in D THEN {} ELSE IF e = d THEN reass[d] \cup hand ELSE reass[e]
      BY <2>2
    <3>2. CASE e \in D
      BY <1>d, <3>1, <3>2
    <3>3. CASE e \notin D /\ e = d
      BY <3>1, <3>3
    <3>4. CASE e \notin D /\ e # d
      BY <3>1, <3>4
    <3> QED
      BY <3>2, <3>3, <3>4
  <2>4. reass' \in [Datagrams -> SUBSET Pbufs]
    BY <1>0, <2>2
  <2>5. ReassApart'
    BY <1>1, <2>3 DEF ReassApart
  <2>6. ASSUME NEW b \in Pbufs
        PROVE  b \in hand \/ InReass(b) <=> b \in hand' \/ InReass(b)'
    <3>1. b \in hand => b \in reass'[d]
      BY <1>2, <2>3
    <3>2. ASSUME InReass(b) PROVE b \in hand' \/ InReass(b)'
      <4>1. PICK e \in Datagrams : b \in reass[e]
        BY <3>2 DEF InReass
      <4>2. ASSUME e \in D PROVE b \in hand'
        <5>1. b \in Of(D)
          BY <1>3, <4>1, <4>2
        <5> QED
          BY <2>1, <5>1
      <4>3. e \notin D => b \in reass'[e]
        BY <2>3, <4>1
      <4> QED
        BY <4>2, <4>3 DEF InReass
    <3>3. b \in hand' => InReass(b)
      BY <1>2, <1>3, <2>1 DEF InReass
    <3>4. ASSUME InReass(b)' PROVE b \in hand \/ InReass(b)
      <4>1. PICK e \in Datagrams : b \in reass'[e]
        BY <3>4 DEF InReass
      <4> QED
        BY <2>3, <4>1 DEF InReass
    <3>5. b \in reass'[d] => InReass(b)'
      BY <1>2 DEF InReass
    <3> QED
      BY <3>1, <3>2, <3>3, <3>4, <3>5
  <2>7. ASSUME NEW b \in Pbufs PROVE ~(b \in hand' /\ InReass(b)')
    BY <1>1, <1>2, <1>3, <2>1, <2>3 DEF InReass, ReassApart
  <2> QED
    BY <1>0, <1>3, <2>1, <2>4, <2>5, <2>6, <2>7
<1>5. CASE hand' = Of(D) \cup hand /\ reass' = Without(D)
  <2>1. hand' = Of(D) \cup hand
    BY <1>2, <1>5
  <2>2. reass' = [e \in Datagrams |-> IF e \in D THEN {} ELSE reass[e]]
    BY <1>2, <1>5 DEF Without
  <2>3. \A e \in Datagrams : \A b : b \in reass'[e] <=> e \notin D /\ b \in reass[e]
    BY <2>2
  <2>4. reass' \in [Datagrams -> SUBSET Pbufs]
    BY <1>0, <2>2
  <2> QED
    BY <1>0, <1>1, <1>2, <1>3, <2>1, <2>3, <2>4 DEF InReass, ReassApart
<1> QED
  BY <1>2, <1>4, <1>5

\* So it is with a frame that is whole or completes a datagram.
LEMMA WholeMoves ==
  ASSUME TypeOK, Placed, ReassApart,
         NEW p \in SUBSET Pbufs, NEW x \in SUBSET Pbufs, Whole(p, x)
  PROVE  /\ reass' \in [Datagrams -> SUBSET Pbufs]
         /\ \A b \in Pbufs : b \in hand \/ InReass(b) <=> b \in p \/ b \in x \/ InReass(b)'
         /\ \A b \in Pbufs : /\ ~(b \in p /\ b \in x)
                             /\ ~(b \in p /\ InReass(b)')
                             /\ ~(b \in x /\ InReass(b)')
         /\ ReassApart'
<1>0. hand \in SUBSET Pbufs /\ reass \in [Datagrams -> SUBSET Pbufs]
  BY DEF TypeOK
<1>1. \A b \in Pbufs : b \in hand => \A d \in Datagrams : b \notin reass[d]
  BY DEF Placed, Once, InReass
<1>2. CASE p = hand /\ x = {} /\ UNCHANGED reass
  BY <1>0, <1>1, <1>2, SameReass DEF InReass
<1>3. CASE \E d \in Datagrams, D \in SUBSET Datagrams :
             d \notin D /\ p = hand \cup reass[d] /\ x = Of(D) /\ reass' = Without(D \cup {d})
  <2>1. PICK d \in Datagrams, D \in SUBSET Datagrams :
             d \notin D /\ p = hand \cup reass[d] /\ x = Of(D) /\ reass' = Without(D \cup {d})
    BY <1>3
  <2>2. \A b : b \in x <=> \E e \in D : b \in reass[e]
    BY <2>1 DEF Of
  <2>3. \A e \in Datagrams : \A b : b \in reass'[e] <=> e \notin D /\ e # d /\ b \in reass[e]
    BY <2>1 DEF Without
  <2>4. reass' \in [Datagrams -> SUBSET Pbufs]
    BY <1>0, <2>1 DEF Without
  <2>5. ReassApart'
    BY <2>3 DEF ReassApart
  <2>6. ASSUME NEW b \in Pbufs
        PROVE  b \in hand \/ InReass(b) <=> b \in p \/ b \in x \/ InReass(b)'
    BY <2>1, <2>2, <2>3 DEF InReass
  <2>7. ASSUME NEW b \in Pbufs
        PROVE  ~(b \in p /\ b \in x) /\ ~(b \in p /\ InReass(b)') /\ ~(b \in x /\ InReass(b)')
    <3>1. b \in p <=> b \in hand \/ b \in reass[d]
      BY <2>1
    <3>2. ~(b \in p /\ b \in x)
      BY <1>1, <2>1, <2>2, <3>1 DEF ReassApart
    <3>3. ~(b \in p /\ InReass(b)')
      BY <1>1, <2>1, <2>3, <3>1 DEF InReass, ReassApart
    <3>4. ~(b \in x /\ InReass(b)')
      BY <2>1, <2>2, <2>3 DEF InReass, ReassApart
    <3> QED
      BY <3>2, <3>3, <3>4
  <2> QED
    BY <2>4, <2>5, <2>6, <2>7
<1> QED
  BY <1>2, <1>3 DEF Whole

-----------------------------------------------------------------------------
LEMMA InitIInv == Init => IInv
<1> SUFFICES ASSUME Init PROVE IInv
  OBVIOUS
<1>0. MboxSize \in Nat /\ NumInpkt \in Nat /\ NumMsgApi \in Nat
  OBVIOUS
<1>1. TypeOK
  <2>1. mbox \in Seq(Messages) /\ Len(mbox) = 0
    BY DEF Init
  <2>2. /\ ooseq \in [Pcbs -> SUBSET Pbufs] /\ refused \in [Pcbs -> SUBSET Pbufs]
        /\ reass \in [Datagrams -> SUBSET Pbufs]
    BY DEF Init
  <2>3. inpkt \in 0 .. NumInpkt /\ msgapi \in 0 .. NumMsgApi /\ 0 <= MboxSize
    BY <1>0 DEF Init
  <2> QED
    BY <2>1, <2>2, <2>3 DEF Init, TypeOK
<1>2. \A t : Queued(t) = {}
  BY DEF Init, Queued
<1>3. \A t : Cardinality(Queued(t)) = 0
  BY <1>2, FS_EmptySet
<1>4. Placed
  BY DEF Init, Placed, Somewhere, Once, InTcp, InReass, InMbox
<1>5. Apart
  BY DEF Init, Apart, TcpApart, ReassApart, MboxApart
<1>6. HandInv
  BY DEF Init, HandInv
<1>7. Accounted /\ PendingCounts
  BY <1>3 DEF Init, Accounted, PendingCounts, Handling
<1> QED
  BY <1>1, <1>4, <1>5, <1>6, <1>7 DEF IInv

\* A message is posted while nothing moves but its pbufs, from the pool.
LEMMA PostKeeps ==
  ASSUME IInv, NEW m \in Messages, mbox' = Append(mbox, m), ~Full,
         m.p \subseteq pool, pool' = pool \ m.p,
         UNCHANGED <<at, type, hand, tcp, reass, kept>>
  PROVE  /\ Placed' /\ Apart' /\ HandInv'
         /\ mbox' \in Seq(Messages) /\ Len(mbox)' <= MboxSize
         /\ \A t : Cardinality(Queued(t))' = Cardinality(Queued(t)) + (IF m.type = t THEN 1 ELSE 0)
         /\ \A t : Handling(t)' = Handling(t)
<1>1. \A b \in m.p : b \in Pbufs /\ ~InMbox(b)
  BY DEF IInv, TypeOK, Placed, Once
<1>2. /\ \A b \in Pbufs : InMbox(b)' <=> InMbox(b) \/ b \in m.p
      /\ MboxApart'
  BY <1>1, PostedPbufs DEF IInv, Apart
<1>3. Placed'
  <2>1. ASSUME NEW b \in Pbufs PROVE Somewhere(b)' /\ Once(b)'
    <3>1. (InTcp(b)' <=> InTcp(b)) /\ (InReass(b)' <=> InReass(b))
      BY SameTcp, SameReass
    <3>2. Somewhere(b) /\ Once(b)
      BY DEF IInv, Placed
    <3>3. InMbox(b)' <=> InMbox(b) \/ b \in m.p
      BY <1>2
    <3> QED
      BY <3>1, <3>2, <3>3 DEF Somewhere, Once
  <2> QED
    BY <2>1 DEF Placed
<1>4. Apart'
  BY <1>2, SameTcp, SameReass DEF IInv, Apart
<1>5. HandInv'
  BY DEF IInv, HandInv
<1>6. /\ \A t : Cardinality(Queued(t))' = Cardinality(Queued(t)) + (IF m.type = t THEN 1 ELSE 0)
      /\ Len(mbox)' = Len(mbox) + 1 /\ mbox' \in Seq(Messages)
  BY Posted DEF IInv
<1>7. Len(mbox)' <= MboxSize
  BY <1>6 DEF IInv, TypeOK, Full
<1> QED
  BY <1>3, <1>4, <1>5, <1>6, <1>7 DEF Handling

\* A frame arrives.
LEMMA FrameKeeps ==
  ASSUME IInv, NEW n \in 1 .. MaxChain, Frame(n)
  PROVE  IInv'
<1> USE DEF Frame
<1>0. TypeOK /\ Accounted /\ PendingCounts /\ \A t : Cardinality(Queued(t)) \in Nat
  BY QueuedFinite DEF IInv
<1>1. CASE UNCHANGED <<pool, inpkt, msgapi, mbox, pending>>
  <2>1. Placed' /\ Apart' /\ HandInv'
    BY <1>1, SameTcp, SameReass, SameMbox DEF IInv, Placed, Somewhere, Once, Apart, HandInv
  <2>2. Accounted' /\ PendingCounts'
    BY <1>0, <1>1, SameMbox DEF Accounted, PendingCounts, Handling
  <2>3. TypeOK'
    BY <1>0, <1>1 DEF TypeOK, tcp
  <2> QED
    BY <2>1, <2>2, <2>3 DEF IInv
<1>2. CASE /\ ~pending /\ msgapi # 0 /\ ~Full
           /\ pending' = TRUE
           /\ msgapi' = msgapi - 1
           /\ mbox' = Append(mbox, [type |-> "CALLBACK", p |-> {}])
           /\ UNCHANGED <<pool, inpkt>>
  <2> DEFINE m == [type |-> "CALLBACK", p |-> {}]
  <2>1. m \in Messages /\ m.type = "CALLBACK" /\ m.p = {}
    BY DEF Messages
  <2>2. /\ Placed' /\ Apart' /\ HandInv'
        /\ mbox' \in Seq(Messages) /\ Len(mbox)' <= MboxSize
        /\ \A t : Cardinality(Queued(t))' = Cardinality(Queued(t)) + (IF m.type = t THEN 1 ELSE 0)
        /\ \A t : Handling(t)' = Handling(t)
    <3> HIDE DEF m
    <3>1. mbox' = Append(mbox, m)
      BY <1>2 DEF m
    <3> QED
      BY <1>2, <2>1, <3>1, PostKeeps
  <2>3. /\ Cardinality(Queued("CALLBACK"))' = Cardinality(Queued("CALLBACK")) + 1
        /\ Cardinality(Queued("INPKT"))' = Cardinality(Queued("INPKT"))
        /\ Cardinality(Queued("API"))' = Cardinality(Queued("API"))
    BY <1>0, <2>1, <2>2
  <2>4. TypeOK'
    BY <1>0, <1>2, <2>2 DEF TypeOK, tcp
  <2>5. Accounted'
    <3>1. inpkt \in Nat /\ msgapi \in Nat
      BY <1>0 DEF TypeOK
    <3>2. \A t : Handling(t) \in Nat
      BY DEF Handling
    <3> QED
      BY <1>0, <1>2, <2>2, <2>3, <3>1, <3>2 DEF Accounted
  <2>6. PendingCounts'
    BY <1>0, <1>2, <2>3 DEF PendingCounts
  <2> QED
    BY <2>2, <2>4, <2>5, <2>6 DEF IInv
<1>3. CASE \E p \in SUBSET pool :
             /\ inpkt # 0 /\ ~Full
             /\ pool' = pool \ p
             /\ inpkt' = inpkt - 1
             /\ mbox' = Append(mbox, [type |-> "INPKT", p |-> p])
             /\ UNCHANGED <<pending, msgapi>>
  <2>1. PICK p \in SUBSET pool :
             /\ inpkt # 0 /\ ~Full
             /\ pool' = pool \ p
             /\ inpkt' = inpkt - 1
             /\ mbox' = Append(mbox, [type |-> "INPKT", p |-> p])
             /\ UNCHANGED <<pending, msgapi>>
    BY <1>3
  <2> DEFINE m == [type |-> "INPKT", p |-> p]
  <2>2. m \in Messages /\ m.type = "INPKT" /\ m.p = p
    BY <1>0 DEF Messages, TypeOK
  <2>3. /\ Placed' /\ Apart' /\ HandInv'
        /\ mbox' \in Seq(Messages) /\ Len(mbox)' <= MboxSize
        /\ \A t : Cardinality(Queued(t))' = Cardinality(Queued(t)) + (IF m.type = t THEN 1 ELSE 0)
        /\ \A t : Handling(t)' = Handling(t)
    <3> HIDE DEF m
    <3>1. mbox' = Append(mbox, m)
      BY <2>1 DEF m
    <3> QED
      BY <2>1, <2>2, <3>1, PostKeeps
  <2>4. /\ Cardinality(Queued("INPKT"))' = Cardinality(Queued("INPKT")) + 1
        /\ Cardinality(Queued("CALLBACK"))' = Cardinality(Queued("CALLBACK"))
        /\ Cardinality(Queued("API"))' = Cardinality(Queued("API"))
    BY <1>0, <2>2, <2>3
  <2>5. TypeOK'
    BY <1>0, <2>1, <2>3 DEF TypeOK, tcp
  <2>6. Accounted'
    <3>1. inpkt \in Nat /\ msgapi \in Nat
      BY <1>0 DEF TypeOK
    <3>2. \A t : Handling(t) \in Nat
      BY DEF Handling
    <3> QED
      BY <1>0, <2>1, <2>3, <2>4, <3>1, <3>2 DEF Accounted
  <2>7. PendingCounts'
    BY <1>0, <2>1, <2>4 DEF PendingCounts
  <2> QED
    BY <2>3, <2>5, <2>6, <2>7 DEF IInv
<1> QED
  BY <1>1, <1>2, <1>3 DEF PoolIsEmpty, TcpipInpkt

-----------------------------------------------------------------------------
(* The steps of tcpip_thread.                                              *)

LEMMA FetchKeeps == IInv /\ Fetch => IInv'
<1> SUFFICES ASSUME IInv, Fetch PROVE IInv'
  OBVIOUS
<1>0. TypeOK /\ Accounted /\ PendingCounts /\ hand = {} /\ mbox # <<>> /\ mbox' = Tail(mbox)
  BY DEF IInv, HandInv, Fetch
<1>1. /\ \A t : Cardinality(Queued(t)) = Cardinality(Queued(t)') + (IF Head(mbox).type = t THEN 1 ELSE 0)
      /\ Len(mbox)' = Len(mbox) - 1 /\ Len(mbox) \in Nat \ {0}
      /\ Head(mbox) \in Messages /\ mbox' \in Seq(Messages)
      /\ \A t : Cardinality(Queued(t)') \in Nat
  BY <1>0, Taken
<1>2. /\ \A b \in Pbufs : InMbox(b) <=> InMbox(b)' \/ b \in Head(mbox).p
      /\ \A b \in Pbufs : ~(InMbox(b)' /\ b \in Head(mbox).p)
      /\ MboxApart'
  BY <1>0, TakenPbufs DEF IInv, Apart
<1>3. /\ Head(mbox).p \in SUBSET Pbufs
      /\ Head(mbox).type \in {"INPKT", "API", "CALLBACK"}
      /\ Head(mbox).type # "INPKT" => Head(mbox).p = {}
  BY <1>1 DEF Messages
<1>4. TypeOK'
  BY <1>0, <1>1, <1>3 DEF TypeOK, Fetch, tcp
<1>5. Placed'
  <2>1. ASSUME NEW b \in Pbufs PROVE Somewhere(b)' /\ Once(b)'
    <3>1. (InTcp(b)' <=> InTcp(b)) /\ (InReass(b)' <=> InReass(b))
      BY SameTcp, SameReass DEF Fetch
    <3>2. Somewhere(b) /\ Once(b)
      BY DEF IInv, Placed
    <3>3. hand' = Head(mbox).p /\ UNCHANGED <<pool, kept>>
      BY DEF Fetch
    <3> QED
      BY <1>0, <1>2, <3>1, <3>2, <3>3 DEF Somewhere, Once
  <2> QED
    BY <2>1 DEF Placed
<1>6. Apart'
  BY <1>2, SameTcp, SameReass DEF IInv, Apart, Fetch
<1>7. HandInv'
  BY <1>3 DEF HandInv, Fetch
<1>8. Accounted'
  <2>1. \A t : Handling(t) = 0 /\ Handling(t)' = IF Head(mbox).type = t THEN 1 ELSE 0
    BY DEF Fetch, Handling
  <2>2. inpkt \in Nat /\ msgapi \in Nat /\ UNCHANGED <<inpkt, msgapi, asked>>
    BY <1>0 DEF TypeOK, Fetch
  <2>3. inpkt' + Cardinality(Queued("INPKT")') + Handling("INPKT")' = NumInpkt
    BY <1>0, <1>1, <2>1, <2>2 DEF Accounted
  <2>4. msgapi' + Cardinality(Queued("CALLBACK")') + Handling("CALLBACK")' = NumMsgApi
    BY <1>0, <1>1, <2>1, <2>2 DEF Accounted
  <2>5. Cardinality(Queued("API")') + Handling("API")' = Cardinality(Queued("API")) + Handling("API")
    BY <1>1, <2>1
  <2>6. Cardinality(Queued("API")) + Handling("API") = IF asked = "queued" THEN 1 ELSE 0
    BY <1>0 DEF Accounted
  <2> QED
    BY <2>2, <2>3, <2>4, <2>5, <2>6 DEF Accounted
<1>9. PendingCounts'
  BY <1>0, <1>1 DEF PendingCounts, Fetch
<1> QED
  BY <1>4, <1>5, <1>6, <1>7, <1>8, <1>9 DEF IInv

\* A step that moves pbufs between the pool, tcpip_thread's hands and the lists,
\* for a message or a timer, and leaves the mailbox alone.
LEMMA MoveKeeps ==
  ASSUME IInv, UNCHANGED <<inpkt, msgapi, mbox, pending>>,
         asked' \in {"no", "queued", "open"}, asked' = "queued" <=> asked = "queued",
         IF at = "fetch" THEN type' = "TIMER" ELSE type' = type,
         at' \in {"free", "done"}, at' = "done" => hand' = {},
         at # "handle" \/ type # "CALLBACK",
         pool' \in SUBSET Pbufs, hand' \in SUBSET Pbufs, kept' \in SUBSET Pbufs,
         ooseq' \in [Pcbs -> SUBSET Pbufs], refused' \in [Pcbs -> SUBSET Pbufs],
         reass' \in [Datagrams -> SUBSET Pbufs], leaked' \in SUBSET Pbufs,
         TcpApart', ReassApart',
         \A b \in Pbufs :
           (InMbox(b)' <=> InMbox(b)) /\ Somewhere(b) /\ Once(b) => Somewhere(b)' /\ Once(b)'
  PROVE  IInv'
<1>1. TypeOK'
  BY DEF IInv, TypeOK
<1>2. Placed' /\ Apart'
  BY SameMbox DEF IInv, Placed, Apart
<1>3. HandInv'
  BY DEF HandInv
<1>4. (at # "handle" /\ at' # "handle") \/ type' # "CALLBACK"
  BY DEF IInv, HandInv
<1>5. Accounted' /\ PendingCounts'
  BY <1>4, CountsKept DEF IInv
<1> QED
  BY <1>1, <1>2, <1>3, <1>5 DEF IInv

LEMMA FragmentKeeps == IInv /\ Fragment => IInv'
<1> SUFFICES ASSUME IInv, Fragment PROVE IInv'
  OBVIOUS
<1>1. /\ hand' \in SUBSET Pbufs /\ reass' \in [Datagrams -> SUBSET Pbufs]
      /\ \A b \in Pbufs : b \in hand \/ InReass(b) <=> b \in hand' \/ InReass(b)'
      /\ \A b \in Pbufs : ~(b \in hand' /\ InReass(b)')
      /\ ReassApart'
  BY FragmentMoves DEF IInv, Apart
<1>2. /\ UNCHANGED <<pool, inpkt, msgapi, mbox, pending, type, tcp, kept, asked>>
      /\ at = "handle" /\ type = "INPKT"
      /\ at' \in {"free", "done"} /\ (at' = "done" => hand' = {})
  BY DEF Fragment, FreeAll
<1>3. /\ pool' \in SUBSET Pbufs /\ kept' \in SUBSET Pbufs
      /\ ooseq' \in [Pcbs -> SUBSET Pbufs] /\ refused' \in [Pcbs -> SUBSET Pbufs] /\ TcpApart'
      /\ leaked' \in SUBSET Pbufs /\ asked' \in {"no", "queued", "open"}
  BY <1>2, SameTcp DEF IInv, TypeOK, Apart, tcp
<1>4. ASSUME NEW b \in Pbufs, InMbox(b)' <=> InMbox(b), Somewhere(b), Once(b)
      PROVE  Somewhere(b)' /\ Once(b)'
  <2>1. InTcp(b)' <=> InTcp(b)
    BY <1>2, SameTcp
  <2> QED
    BY <1>1, <1>2, <1>4, <2>1 DEF Somewhere, Once
<1> QED
  BY <1>1, <1>2, <1>3, <1>4, MoveKeeps

\* A callback may close what was left open: nothing that is in the mailbox.
LEMMA AnswerKeeps ==
  ASSUME TypeOK, Answer
  PROVE  asked' \in {"no", "queued", "open"} /\ (asked' = "queued" <=> asked = "queued")
BY DEF TypeOK, Answer

LEMMA InputKeeps == IInv /\ Input => IInv'
<1> SUFFICES ASSUME IInv, Input PROVE IInv'
  OBVIOUS
<1>0. /\ UNCHANGED <<pool, inpkt, msgapi, mbox, pending, type>>
      /\ at = "handle" /\ type = "INPKT" /\ TypeOK /\ TcpApart
      /\ asked' \in {"no", "queued", "open"} /\ (asked' = "queued" <=> asked = "queued")
  BY AnswerKeeps DEF Input, IInv, Apart
<1>1. PICK p \in SUBSET Pbufs, x \in SUBSET Pbufs :
       /\ Whole(p, x)
       /\ \/ FreeAll(p \cup x) /\ UNCHANGED <<tcp, kept>>
          \/ \E c \in Pcbs : Segment(c, p, x) \/ EndsWith(c, p, x)
  BY DEF Input
<1>2. /\ reass' \in [Datagrams -> SUBSET Pbufs]
      /\ \A b \in Pbufs : b \in hand \/ InReass(b) <=> b \in p \/ b \in x \/ InReass(b)'
      /\ \A b \in Pbufs : /\ ~(b \in p /\ b \in x)
                          /\ ~(b \in p /\ InReass(b)')
                          /\ ~(b \in x /\ InReass(b)')
      /\ ReassApart'
  BY <1>1, WholeMoves DEF IInv, Apart
<1>3. /\ pool \in SUBSET Pbufs /\ kept \in SUBSET Pbufs /\ leaked \in SUBSET Pbufs
      /\ ooseq \in [Pcbs -> SUBSET Pbufs] /\ refused \in [Pcbs -> SUBSET Pbufs]
  BY <1>0 DEF TypeOK
<1>4. at' \in {"free", "done"} /\ (at' = "done" => hand' = {})
  BY <1>1 DEF FreeAll, Segment, EndsWith
<1>5. ASSUME hand' \in SUBSET Pbufs, leaked' \in SUBSET Pbufs, kept' \in SUBSET Pbufs, TcpApart',
             ooseq' \in [Pcbs -> SUBSET Pbufs], refused' \in [Pcbs -> SUBSET Pbufs],
             \A b \in Pbufs :
               /\ b \in p \/ b \in x \/ b \in kept \/ InTcp(b) <=> b \in hand' \/ b \in kept' \/ InTcp(b)'
               /\ ~(b \in hand' /\ b \in kept') /\ ~(b \in hand' /\ InTcp(b)') /\ ~(b \in kept' /\ InTcp(b)')
      PROVE  IInv'
  <2>1. ASSUME NEW b \in Pbufs, InMbox(b)' <=> InMbox(b), Somewhere(b), Once(b)
        PROVE  Somewhere(b)' /\ Once(b)'
    <3>1. UNCHANGED pool
      BY <1>0
    <3>2. /\ b \in hand \/ InReass(b) <=> b \in p \/ b \in x \/ InReass(b)'
          /\ ~(b \in p /\ b \in x) /\ ~(b \in p /\ InReass(b)') /\ ~(b \in x /\ InReass(b)')
          /\ b \in p \/ b \in x \/ b \in kept \/ InTcp(b) <=> b \in hand' \/ b \in kept' \/ InTcp(b)'
          /\ ~(b \in hand' /\ b \in kept') /\ ~(b \in hand' /\ InTcp(b)') /\ ~(b \in kept' /\ InTcp(b)')
      BY <1>2, <1>5
    <3> QED
      BY <2>1, <3>1, <3>2 DEF Somewhere, Once
  <2> QED
    BY <1>0, <1>2, <1>3, <1>4, <1>5, <2>1, MoveKeeps
\* What TCP or the application has is in nobody else's hands.
<1>6. \A b \in Pbufs : /\ InTcp(b) => b \notin p /\ b \notin x /\ b \notin kept
                       /\ b \in kept => b \notin p /\ b \notin x
  BY <1>2 DEF IInv, Placed, Once
<1>7. CASE FreeAll(p \cup x) /\ UNCHANGED <<tcp, kept>>
  <2>1. hand' = p \cup x /\ UNCHANGED <<tcp, kept, ooseq, refused, leaked>>
    BY <1>7 DEF FreeAll, tcp
  <2>2. TcpApart' /\ \A b \in Pbufs : InTcp(b)' <=> InTcp(b)
    BY <1>0, <2>1, SameTcp
  <2>3. ASSUME NEW b \in Pbufs
        PROVE  /\ b \in p \/ b \in x \/ b \in kept \/ InTcp(b) <=> b \in hand' \/ b \in kept' \/ InTcp(b)'
               /\ ~(b \in hand' /\ b \in kept') /\ ~(b \in hand' /\ InTcp(b)') /\ ~(b \in kept' /\ InTcp(b)')
    BY <1>2, <1>6, <2>1, <2>2
  <2> QED
    BY <1>3, <1>5, <2>1, <2>2, <2>3
<1>8. ASSUME NEW c \in Pcbs, Segment(c, p, x)
      PROVE  IInv'
  <2>1. PICK o \in SUBSET (p \cup ooseq[c]), up \in SUBSET (p \cup ooseq[c]),
             old \in {{}, refused[c]} :
          /\ o \cap up = {}
          /\ ooseq' = [ooseq EXCEPT ![c] = o]
          /\ Offer(c, old, up)
          /\ FreeAll(x \cup ((p \cup ooseq[c] \cup refused[c]) \ (o \cup up \cup old)))
          /\ UNCHANGED leaked
    BY <1>8 DEF Segment
  <2>2. PICK again \in {{}, up} :
          refused' = [refused EXCEPT ![c] = again] /\ kept' = kept \cup old \cup (up \ again)
    BY <2>1 DEF Offer
  <2>3. hand' = x \cup ((p \cup ooseq[c] \cup refused[c]) \ (o \cup up \cup old))
    BY <2>1 DEF FreeAll
  <2>4. ooseq[c] \in SUBSET Pbufs /\ refused[c] \in SUBSET Pbufs
    BY <1>3
  <2>5. o \in SUBSET Pbufs /\ again \in SUBSET Pbufs /\ o \cap again = {}
    BY <2>1, <2>2, <2>4
  <2>6. ASSUME NEW b \in o \cup again PROVE b \in ooseq[c] \/ b \in refused[c] \/ ~InTcp(b)
    <3>1. b \in Pbufs /\ (b \in p \/ b \in ooseq[c])
      BY <2>1, <2>2, <2>5
    <3> QED
      BY <1>6, <3>1
  <2>7. /\ ooseq' \in [Pcbs -> SUBSET Pbufs] /\ refused' \in [Pcbs -> SUBSET Pbufs] /\ TcpApart'
        /\ \A b \in Pbufs : /\ b \in ooseq[c] \/ b \in refused[c] => InTcp(b)
                            /\ ~(b \in ooseq[c] /\ b \in refused[c])
                            /\ InTcp(b)' <=> \/ b \in o \/ b \in again
                                             \/ InTcp(b) /\ b \notin ooseq[c] /\ b \notin refused[c]
    BY <1>0, <2>1, <2>2, <2>5, <2>6, TcpMoves
  <2>8. ASSUME NEW b \in Pbufs
        PROVE  /\ b \in p \/ b \in x \/ b \in kept \/ InTcp(b) <=> b \in hand' \/ b \in kept' \/ InTcp(b)'
               /\ ~(b \in hand' /\ b \in kept') /\ ~(b \in hand' /\ InTcp(b)') /\ ~(b \in kept' /\ InTcp(b)')
    <3>1. /\ b \in o => b \notin up /\ (b \in p \/ b \in ooseq[c])
          /\ b \in up => b \in p \/ b \in ooseq[c]
          /\ b \in old => b \in refused[c]
          /\ b \in again => b \in up
          /\ ~(b \in p /\ b \in x)
      BY <1>2, <2>1, <2>2
    <3>2. /\ b \in hand' <=> \/ b \in x
                             \/ /\ b \in p \/ b \in ooseq[c] \/ b \in refused[c]
                                /\ b \notin o /\ b \notin up /\ b \notin old
          /\ b \in kept' <=> b \in kept \/ b \in old \/ (b \in up /\ b \notin again)
      BY <2>2, <2>3
    <3> QED
      BY <1>6, <2>7, <3>1, <3>2
  <2>9. hand' \in SUBSET Pbufs /\ kept' \in SUBSET Pbufs /\ leaked' \in SUBSET Pbufs
    BY <1>3, <2>1, <2>2, <2>3, <2>4
  <2> QED
    BY <1>5, <2>7, <2>8, <2>9
<1>9. ASSUME NEW c \in Pcbs, EndsWith(c, p, x)
      PROVE  IInv'
  <2>1. PICK up \in SUBSET (p \cup ooseq[c]), old \in {{}, refused[c]} :
          /\ leaked' = leaked \cup up
          /\ ooseq' = [ooseq EXCEPT ![c] = {}] /\ refused' = [refused EXCEPT ![c] = {}]
          /\ kept' = kept \cup old
          /\ FreeAll(x \cup ((p \cup ooseq[c] \cup refused[c]) \ (up \cup old)))
    BY <1>9 DEF EndsWith
  <2> DEFINE none == {}
  <2>2. hand' = x \cup ((p \cup ooseq[c] \cup refused[c]) \ (up \cup old))
    BY <2>1 DEF FreeAll
  <2>3. ooseq[c] \in SUBSET Pbufs /\ refused[c] \in SUBSET Pbufs
    BY <1>3
  <2>4. /\ up \in SUBSET Pbufs /\ none \in SUBSET Pbufs
        /\ none \cap none = {} /\ up \cap (none \cup none) = {}
        /\ ooseq' = [ooseq EXCEPT ![c] = none] /\ refused' = [refused EXCEPT ![c] = none]
    BY <2>1, <2>3
  <2>5. ASSUME NEW b \in none \cup none \cup up PROVE b \in ooseq[c] \/ b \in refused[c] \/ ~InTcp(b)
    <3>1. b \in Pbufs /\ (b \in p \/ b \in ooseq[c])
      BY <2>1, <2>4, <2>5
    <3> QED
      BY <1>6, <3>1
  <2>6. \A b : b \notin none
    OBVIOUS
  <2> HIDE DEF none
  <2>7. /\ ooseq' \in [Pcbs -> SUBSET Pbufs] /\ refused' \in [Pcbs -> SUBSET Pbufs] /\ TcpApart'
        /\ \A b \in Pbufs : /\ b \in ooseq[c] \/ b \in refused[c] => InTcp(b)
                            /\ ~(b \in ooseq[c] /\ b \in refused[c])
                            /\ InTcp(b)' <=> \/ b \in none \/ b \in none \/ b \in up
                                             \/ InTcp(b) /\ b \notin ooseq[c] /\ b \notin refused[c]
    BY <1>0, <2>1, <2>4, <2>5, TcpLoses
  <2>8. ASSUME NEW b \in Pbufs
        PROVE  /\ b \in p \/ b \in x \/ b \in kept \/ InTcp(b) <=> b \in hand' \/ b \in kept' \/ InTcp(b)'
               /\ ~(b \in hand' /\ b \in kept') /\ ~(b \in hand' /\ InTcp(b)') /\ ~(b \in kept' /\ InTcp(b)')
    <3>1. /\ b \in up => b \in p \/ b \in ooseq[c]
          /\ b \in old => b \in refused[c]
          /\ ~(b \in p /\ b \in x)
      BY <1>2, <2>1
    <3>2. /\ b \in hand' <=> \/ b \in x
                             \/ /\ b \in p \/ b \in ooseq[c] \/ b \in refused[c]
                                /\ b \notin up /\ b \notin old
          /\ b \in kept' <=> b \in kept \/ b \in old
      BY <2>1, <2>2
    <3> QED
      BY <1>6, <2>6, <2>7, <3>1, <3>2
  <2>9. hand' \in SUBSET Pbufs /\ kept' \in SUBSET Pbufs /\ leaked' \in SUBSET Pbufs
    BY <1>3, <2>1, <2>2, <2>3, <2>4
  <2> QED
    BY <1>5, <2>7, <2>8, <2>9
<1> QED
  BY <1>1, <1>7, <1>8, <1>9

LEMMA ReassTimerKeeps == IInv /\ ReassTimer => IInv'
<1> SUFFICES ASSUME IInv, ReassTimer PROVE IInv'
  OBVIOUS
<1>0. /\ TypeOK /\ ReassApart
      /\ at = "fetch" /\ hand = {} /\ type' = "TIMER"
      /\ UNCHANGED <<pool, inpkt, msgapi, mbox, pending, tcp, kept, asked>>
  BY DEF IInv, HandInv, Apart, ReassTimer
<1>1. PICK D \in SUBSET Datagrams : Of(D) # {} /\ FreeAll(Of(D)) /\ reass' = Without(D)
  BY DEF ReassTimer
<1>2. hand' = Of(D) /\ at' = "free"
  BY <1>1 DEF FreeAll
<1>3. \A b : b \in hand' <=> \E d \in D : b \in reass[d]
  BY <1>2 DEF Of
<1>4. \A d \in Datagrams : \A b : b \in reass'[d] <=> d \notin D /\ b \in reass[d]
  BY <1>1 DEF Without
<1>5. hand' \in SUBSET Pbufs /\ reass' \in [Datagrams -> SUBSET Pbufs]
  BY <1>0, <1>1, <1>3 DEF TypeOK, Without
<1>6. /\ pool' \in SUBSET Pbufs /\ kept' \in SUBSET Pbufs
      /\ ooseq' \in [Pcbs -> SUBSET Pbufs] /\ refused' \in [Pcbs -> SUBSET Pbufs] /\ TcpApart'
      /\ leaked' \in SUBSET Pbufs
      /\ asked' \in {"no", "queued", "open"} /\ (asked' = "queued" <=> asked = "queued")
  BY <1>0, SameTcp DEF IInv, Apart, TypeOK, tcp
<1>7. ReassApart'
  BY <1>0, <1>4 DEF ReassApart
<1>8. ASSUME NEW b \in Pbufs, InMbox(b)' <=> InMbox(b), Somewhere(b), Once(b)
      PROVE  Somewhere(b)' /\ Once(b)'
  <2>1. (InReass(b) <=> b \in hand' \/ InReass(b)') /\ ~(b \in hand' /\ InReass(b)')
    BY <1>0, <1>3, <1>4 DEF InReass, ReassApart
  <2>2. InTcp(b)' <=> InTcp(b)
    BY <1>0, SameTcp
  <2> QED
    BY <1>0, <1>8, <2>1, <2>2 DEF Somewhere, Once
<1> QED
  BY <1>0, <1>2, <1>5, <1>6, <1>7, <1>8, MoveKeeps

\* What is taken from a connection, and from or for the application, is freed.
LEMMA TcpStepKeeps ==
  ASSUME IInv, UNCHANGED <<pool, inpkt, msgapi, mbox, pending, leaked, reass>>,
         asked' \in {"no", "queued", "open"}, asked' = "queued" <=> asked = "queued",
         IF at = "fetch" THEN type' = "TIMER" ELSE type' = type,
         at # "handle" \/ type # "CALLBACK", hand = {},
         NEW c \in Pcbs, NEW o \in SUBSET Pbufs, NEW left \in SUBSET Pbufs,
         ooseq' = [ooseq EXCEPT ![c] = o], refused' = [refused EXCEPT ![c] = left],
         o \subseteq ooseq[c], left \subseteq refused[c],
         NEW q \in SUBSET Pbufs, FreeAll(q), kept' \in SUBSET Pbufs,
         \A b \in Pbufs :
           /\ b \in kept \/ b \in ooseq[c] \/ b \in refused[c] <=> b \in q \/ b \in kept' \/ b \in o \/ b \in left
           /\ ~(b \in q /\ b \in kept') /\ ~(b \in q /\ (b \in o \/ b \in left))
           /\ ~(b \in kept' /\ (b \in o \/ b \in left))
  PROVE  IInv'
<1>1. hand' = q /\ at' \in {"free", "done"} /\ (at' = "done" => hand' = {})
  BY DEF FreeAll
<1>2. TypeOK /\ TcpApart
  BY DEF IInv, Apart
<1>3. o \cap left = {}
  BY <1>2 DEF TcpApart
<1>4. /\ ooseq' \in [Pcbs -> SUBSET Pbufs] /\ refused' \in [Pcbs -> SUBSET Pbufs] /\ TcpApart'
      /\ \A b \in Pbufs : /\ b \in ooseq[c] \/ b \in refused[c] => InTcp(b)
                          /\ InTcp(b)' <=> \/ b \in o \/ b \in left
                                           \/ InTcp(b) /\ b \notin ooseq[c] /\ b \notin refused[c]
  BY <1>2, <1>3, TcpMoves
<1>5. /\ pool' \in SUBSET Pbufs /\ leaked' \in SUBSET Pbufs
      /\ reass' \in [Datagrams -> SUBSET Pbufs] /\ ReassApart'
  BY SameReass DEF IInv, Apart, TypeOK
<1>6. ASSUME NEW b \in Pbufs, InMbox(b)' <=> InMbox(b), Somewhere(b), Once(b)
      PROVE  Somewhere(b)' /\ Once(b)'
  <2>1. InReass(b)' <=> InReass(b)
    BY SameReass
  <2>2. /\ b \in ooseq[c] \/ b \in refused[c] => InTcp(b)
        /\ InTcp(b)' <=> \/ b \in o \/ b \in left
                         \/ InTcp(b) /\ b \notin ooseq[c] /\ b \notin refused[c]
    BY <1>4
  <2>3. /\ b \in hand' <=> b \in q
        /\ b \notin hand /\ (b \in pool' <=> b \in pool)
        /\ b \in o => b \in ooseq[c]
        /\ b \in left => b \in refused[c]
    BY <1>1
  <2> QED
    BY <1>6, <2>1, <2>2, <2>3 DEF Somewhere, Once
<1> QED
  BY <1>1, <1>4, <1>5, <1>6, MoveKeeps

LEMMA TcpTimerKeeps == IInv /\ TcpTimer => IInv'
<1> SUFFICES ASSUME IInv, TcpTimer PROVE IInv'
  OBVIOUS
<1>0. /\ at = "fetch" /\ hand = {} /\ type' = "TIMER" /\ TypeOK /\ TcpApart
      /\ UNCHANGED <<pool, inpkt, msgapi, mbox, pending, leaked, reass>>
      /\ asked' \in {"no", "queued", "open"} /\ (asked' = "queued" <=> asked = "queued")
  BY AnswerKeeps DEF IInv, HandInv, Apart, TcpTimer
<1>1. PICK c \in Pcbs : \E o \in {{}, ooseq[c]}, old, left \in {{}, refused[c]} :
       /\ old \cap left = {}
       /\ ooseq' = [ooseq EXCEPT ![c] = o] /\ refused' = [refused EXCEPT ![c] = left]
       /\ kept' = kept \cup old
       /\ FreeAll((ooseq[c] \cup refused[c]) \ (o \cup old \cup left))
  BY DEF TcpTimer
<1>2. PICK o \in {{}, ooseq[c]}, old \in {{}, refused[c]}, left \in {{}, refused[c]} :
       /\ old \cap left = {}
       /\ ooseq' = [ooseq EXCEPT ![c] = o] /\ refused' = [refused EXCEPT ![c] = left]
       /\ kept' = kept \cup old
       /\ FreeAll((ooseq[c] \cup refused[c]) \ (o \cup old \cup left))
  BY <1>1
<1> DEFINE q == (ooseq[c] \cup refused[c]) \ (o \cup old \cup left)
<1>3. ooseq[c] \in SUBSET Pbufs /\ refused[c] \in SUBSET Pbufs /\ kept \in SUBSET Pbufs
  BY <1>0 DEF TypeOK
<1>4. /\ o \in SUBSET Pbufs /\ left \in SUBSET Pbufs /\ q \in SUBSET Pbufs /\ kept' \in SUBSET Pbufs
      /\ o \subseteq ooseq[c] /\ left \subseteq refused[c] /\ old \subseteq refused[c]
  BY <1>2, <1>3
<1>5. ASSUME NEW b \in Pbufs
      PROVE  /\ b \in kept \/ b \in ooseq[c] \/ b \in refused[c] <=> b \in q \/ b \in kept' \/ b \in o \/ b \in left
             /\ ~(b \in q /\ b \in kept') /\ ~(b \in q /\ (b \in o \/ b \in left))
             /\ ~(b \in kept' /\ (b \in o \/ b \in left))
  <2>1. b \in kept => b \notin ooseq[c] /\ b \notin refused[c]
    BY DEF IInv, Placed, Once, InTcp
  <2>2. ~(b \in ooseq[c] /\ b \in refused[c])
    BY <1>0 DEF TcpApart
  <2> QED
    BY <1>2, <1>4, <2>1, <2>2
<1>6. FreeAll(q)
  BY <1>2
<1>7. /\ IF at = "fetch" THEN type' = "TIMER" ELSE type' = type
      /\ at # "handle" \/ type # "CALLBACK"
  BY <1>0
<1>8. /\ ooseq' = [ooseq EXCEPT ![c] = o] /\ refused' = [refused EXCEPT ![c] = left]
      /\ UNCHANGED <<pool, inpkt, msgapi, mbox, pending, leaked, reass>> /\ hand = {}
      /\ asked' \in {"no", "queued", "open"} /\ (asked' = "queued" <=> asked = "queued")
  BY <1>0, <1>2
<1>9. /\ o \in SUBSET Pbufs /\ left \in SUBSET Pbufs /\ q \in SUBSET Pbufs /\ kept' \in SUBSET Pbufs
      /\ o \subseteq ooseq[c] /\ left \subseteq refused[c]
  BY <1>4
<1> HIDE DEF q
<1> QED
  BY <1>5, <1>6, <1>7, <1>8, <1>9, TcpStepKeeps

LEMMA RequestKeeps == IInv /\ Request => IInv'
<1> SUFFICES ASSUME IInv, Request PROVE IInv'
  OBVIOUS
<1>0. /\ UNCHANGED <<pool, inpkt, msgapi, mbox, pending, type, leaked, reass, asked>>
      /\ at = "handle" /\ type = "API" /\ hand = {} /\ TypeOK /\ TcpApart
  BY DEF Request, IInv, HandInv, Apart
<1>1. PICK p \in SUBSET kept, c \in Pcbs : \E o \in {{}, ooseq[c]}, left \in {{}, refused[c]} :
       /\ kept' = kept \ p
       /\ ooseq' = [ooseq EXCEPT ![c] = o] /\ refused' = [refused EXCEPT ![c] = left]
       /\ FreeAll(p \cup (ooseq[c] \ o) \cup (refused[c] \ left))
  BY DEF Request
<1>2. PICK o \in {{}, ooseq[c]}, left \in {{}, refused[c]} :
       /\ kept' = kept \ p
       /\ ooseq' = [ooseq EXCEPT ![c] = o] /\ refused' = [refused EXCEPT ![c] = left]
       /\ FreeAll(p \cup (ooseq[c] \ o) \cup (refused[c] \ left))
  BY <1>1
<1> DEFINE q == p \cup (ooseq[c] \ o) \cup (refused[c] \ left)
<1>3. ooseq[c] \in SUBSET Pbufs /\ refused[c] \in SUBSET Pbufs /\ kept \in SUBSET Pbufs
  BY <1>0 DEF TypeOK
<1>4. /\ o \in SUBSET Pbufs /\ left \in SUBSET Pbufs /\ q \in SUBSET Pbufs /\ kept' \in SUBSET Pbufs
      /\ o \subseteq ooseq[c] /\ left \subseteq refused[c]
  BY <1>2, <1>3
<1>5. ASSUME NEW b \in Pbufs
      PROVE  /\ b \in kept \/ b \in ooseq[c] \/ b \in refused[c] <=> b \in q \/ b \in kept' \/ b \in o \/ b \in left
             /\ ~(b \in q /\ b \in kept') /\ ~(b \in q /\ (b \in o \/ b \in left))
             /\ ~(b \in kept' /\ (b \in o \/ b \in left))
  <2>1. b \in kept => b \notin ooseq[c] /\ b \notin refused[c]
    BY DEF IInv, Placed, Once, InTcp
  <2>2. ~(b \in ooseq[c] /\ b \in refused[c])
    BY <1>0 DEF TcpApart
  <2> QED
    BY <1>2, <1>4, <2>1, <2>2
<1>6. FreeAll(q)
  BY <1>2
<1>7. asked' \in {"no", "queued", "open"}
  BY <1>0 DEF TypeOK
<1> HIDE DEF q
<1> QED
  BY <1>0, <1>2, <1>4, <1>5, <1>6, <1>7, TcpStepKeeps

LEMMA CallbackKeeps == IInv /\ Callback => IInv'
<1> SUFFICES ASSUME IInv, Callback PROVE IInv'
  OBVIOUS
<1>1. /\ UNCHANGED <<pool, inpkt, msgapi, mbox, type, hand, tcp, reass, kept, asked>>
      /\ at = "handle" /\ type = "CALLBACK" /\ hand = {}
      /\ at' = "reclaim" /\ pending' = FALSE
  BY DEF Callback, IInv, HandInv
<1>2. TypeOK'
  BY <1>1 DEF IInv, TypeOK, tcp
<1>3. Placed' /\ Apart' /\ HandInv'
  BY <1>1, SameTcp, SameReass, SameMbox DEF IInv, Placed, Somewhere, Once, Apart, HandInv
<1>4. \A t : Queued(t)' = Queued(t)
  BY <1>1, SameMbox
<1>5. Accounted'
  <2>1. \A t : Handling(t)' = Handling(t)
    BY <1>1 DEF Handling
  <2> QED
    BY <1>1, <1>4, <2>1 DEF IInv, Accounted
<1>6. PendingCounts'
  <2>1. Cardinality(Queued("CALLBACK")) \in Nat
    BY QueuedFinite DEF IInv
  <2> QED
    BY <1>1, <1>4, <2>1 DEF IInv, PendingCounts
<1> QED
  BY <1>2, <1>3, <1>5, <1>6 DEF IInv

LEMMA ReclaimKeeps == IInv /\ Reclaim => IInv'
<1> SUFFICES ASSUME IInv, Reclaim PROVE IInv'
  OBVIOUS
<1>1. /\ UNCHANGED <<pool, inpkt, msgapi, mbox, pending, type, refused, leaked, reass, kept, asked>>
      /\ at = "reclaim" /\ hand = {} /\ TypeOK /\ TcpApart
      /\ asked' \in {"no", "queued", "open"}
  BY DEF Reclaim, IInv, HandInv, Apart, TypeOK
<1>2. CASE FreeAll({}) /\ UNCHANGED ooseq
  <2>1. hand' = {} /\ at' = "done" /\ UNCHANGED tcp
    BY <1>1, <1>2 DEF FreeAll, tcp
  <2>2. TypeOK' /\ HandInv'
    BY <1>1, <1>2, <2>1 DEF TypeOK, HandInv
  <2>3. Placed' /\ Apart'
    BY <1>1, <2>1, SameTcp, SameReass, SameMbox DEF IInv, Placed, Somewhere, Once, Apart
  <2>4. Accounted' /\ PendingCounts'
    BY <1>1, <2>1, CountsKept DEF IInv
  <2> QED
    BY <2>2, <2>3, <2>4 DEF IInv
<1>3. ASSUME NEW c \in Pcbs, FreeAll(ooseq[c]), ooseq' = [ooseq EXCEPT ![c] = {}]
      PROVE  IInv'
  <2> DEFINE o == {}
             q == ooseq[c]
             left == refused[c]
  <2>1. /\ o \in SUBSET Pbufs /\ q \in SUBSET Pbufs /\ left \in SUBSET Pbufs /\ kept' \in SUBSET Pbufs
        /\ ooseq' = [ooseq EXCEPT ![c] = o] /\ refused' = [refused EXCEPT ![c] = left]
        /\ o \subseteq ooseq[c] /\ left \subseteq refused[c] /\ FreeAll(q)
    BY <1>1, <1>3 DEF TypeOK
  <2>2. ASSUME NEW b \in Pbufs
        PROVE  /\ b \in kept \/ b \in ooseq[c] \/ b \in refused[c]
                    <=> b \in q \/ b \in kept' \/ b \in o \/ b \in left
               /\ ~(b \in q /\ b \in kept') /\ ~(b \in q /\ (b \in o \/ b \in left))
               /\ ~(b \in kept' /\ (b \in o \/ b \in left))
    <3>1. b \in kept => b \notin ooseq[c] /\ b \notin refused[c]
      BY DEF IInv, Placed, Once, InTcp
    <3>2. ~(b \in ooseq[c] /\ b \in refused[c])
      BY <1>1 DEF TcpApart
    <3> QED
      BY <1>1, <3>1, <3>2
  <2>3. /\ IF at = "fetch" THEN type' = "TIMER" ELSE type' = type
        /\ at # "handle" \/ type # "CALLBACK"
        /\ asked' = "queued" <=> asked = "queued"
        /\ UNCHANGED <<pool, inpkt, msgapi, mbox, pending, leaked, reass>> /\ hand = {}
        /\ asked' \in {"no", "queued", "open"}
    BY <1>1
  <2> HIDE DEF o, q, left
  <2> QED
    BY <2>1, <2>2, <2>3, TcpStepKeeps
<1> QED
  BY <1>2, <1>3 DEF Reclaim

LEMMA FreePbufKeeps == IInv /\ FreePbuf => IInv'
<1> SUFFICES ASSUME IInv, FreePbuf PROVE IInv'
  OBVIOUS
<1>1. /\ UNCHANGED <<inpkt, msgapi, mbox, pending, type, tcp, reass, kept, asked>>
      /\ at = "free"
  BY DEF FreePbuf
<1>2. PICK b \in hand : pool' = pool \cup {b} /\ FreeAll(hand \ {b})
  BY DEF FreePbuf
<1>3. /\ hand' = hand \ {b}
      /\ at' \in {"free", "done"} /\ (at' = "done" => hand' = {})
  BY <1>2 DEF FreeAll
<1>4. /\ pool' \in SUBSET Pbufs /\ hand' \in SUBSET Pbufs /\ kept' \in SUBSET Pbufs
      /\ ooseq' \in [Pcbs -> SUBSET Pbufs] /\ refused' \in [Pcbs -> SUBSET Pbufs]
      /\ reass' \in [Datagrams -> SUBSET Pbufs] /\ leaked' \in SUBSET Pbufs
      /\ asked' \in {"no", "queued", "open"} /\ TcpApart' /\ ReassApart'
  BY <1>1, <1>2, <1>3, SameTcp, SameReass DEF IInv, TypeOK, Apart, tcp
<1>5. ASSUME NEW e \in Pbufs, InMbox(e)' <=> InMbox(e), Somewhere(e), Once(e)
      PROVE  Somewhere(e)' /\ Once(e)'
  <2>1. (InTcp(e)' <=> InTcp(e)) /\ (InReass(e)' <=> InReass(e))
    BY <1>1, SameTcp, SameReass
  <2> QED
    BY <1>1, <1>2, <1>3, <1>5, <2>1 DEF Somewhere, Once
<1> QED
  BY <1>1, <1>3, <1>4, <1>5, MoveKeeps

LEMMA DoneKeeps == IInv /\ Done => IInv'
<1> SUFFICES ASSUME IInv, Done PROVE IInv'
  OBVIOUS
<1>1. /\ UNCHANGED <<pool, mbox, pending, type, hand, tcp, reass, kept>>
      /\ at = "done" /\ at' = "fetch" /\ hand = {}
      /\ inpkt' = (IF type = "INPKT" THEN inpkt + 1 ELSE inpkt)
      /\ msgapi' = (IF type = "CALLBACK" THEN msgapi + 1 ELSE msgapi)
      /\ asked' \in (IF type = "API" THEN {"no", "open"} ELSE {asked})
  BY DEF Done, IInv, HandInv
<1>2. \A t : Queued(t)' = Queued(t) /\ Cardinality(Queued(t)) \in Nat
  BY <1>1, SameMbox, QueuedFinite DEF IInv
<1>3. \A t : Handling(t)' = 0 /\ Handling(t) = IF type = t THEN 1 ELSE 0
  BY <1>1 DEF Handling
<1>4. /\ inpkt \in Nat /\ msgapi \in Nat
      /\ asked \in {"no", "queued", "open"} /\ asked' \in {"no", "queued", "open"}
  BY <1>1 DEF IInv, TypeOK
<1>5. Accounted'
  <2>1. Accounted
    BY DEF IInv
  <2>2. inpkt' + Cardinality(Queued("INPKT"))' + Handling("INPKT")' = NumInpkt
    BY <1>1, <1>2, <1>3, <1>4, <2>1 DEF Accounted
  <2>3. msgapi' + Cardinality(Queued("CALLBACK"))' + Handling("CALLBACK")' = NumMsgApi
    BY <1>1, <1>2, <1>3, <1>4, <2>1 DEF Accounted
  <2>4. Cardinality(Queued("API")) + Handling("API") = IF asked = "queued" THEN 1 ELSE 0
    BY <2>1 DEF Accounted
  <2>5. Cardinality(Queued("API"))' + Handling("API")' = IF asked' = "queued" THEN 1 ELSE 0
    <3>1. CASE type = "API"
      <4>1. asked' # "queued"
        BY <1>1, <3>1
      <4>2. Handling("API") = 1 /\ Handling("API")' = 0
        BY <1>3, <3>1
      <4> QED
        BY <1>2, <1>4, <2>4, <4>1, <4>2
    <3>2. CASE type # "API"
      <4>1. asked' = asked
        BY <1>1, <1>4, <3>2
      <4>2. Handling("API") = 0 /\ Handling("API")' = 0
        BY <1>3, <3>2
      <4> QED
        BY <1>2, <1>4, <2>4, <4>1, <4>2
    <3> QED
      BY <3>1, <3>2
  <2> QED
    BY <2>2, <2>3, <2>5 DEF Accounted
<1>6. TypeOK'
  <2>1. inpkt' \in 0 .. NumInpkt /\ msgapi' \in 0 .. NumMsgApi
    BY <1>1, <1>2, <1>3, <1>4, <1>5 DEF Accounted
  <2> QED
    BY <1>1, <2>1 DEF IInv, TypeOK, tcp
<1>7. Placed' /\ Apart' /\ HandInv'
  BY <1>1, SameTcp, SameReass, SameMbox DEF IInv, Placed, Somewhere, Once, Apart, HandInv
<1>8. PendingCounts'
  BY <1>1, <1>2 DEF IInv, PendingCounts
<1> QED
  BY <1>5, <1>6, <1>7, <1>8 DEF IInv

-----------------------------------------------------------------------------
(* The steps of the web thread.                                            *)

LEMMA AskKeeps == IInv /\ Ask => IInv'
<1> SUFFICES ASSUME IInv, Ask PROVE IInv'
  OBVIOUS
<1> DEFINE m == [type |-> "API", p |-> {}]
<1>1. /\ UNCHANGED <<pool, inpkt, msgapi, pending, at, type, hand, tcp, reass, kept>>
      /\ asked = "no" /\ asked' = "queued" /\ ~Full /\ mbox' = Append(mbox, m)
  BY DEF Ask
<1>2. m \in Messages /\ m.type = "API" /\ m.p = {}
  BY DEF Messages
<1>3. /\ Placed' /\ Apart' /\ HandInv'
      /\ mbox' \in Seq(Messages) /\ Len(mbox)' <= MboxSize
      /\ \A t : Cardinality(Queued(t))' = Cardinality(Queued(t)) + (IF m.type = t THEN 1 ELSE 0)
      /\ \A t : Handling(t)' = Handling(t)
  <2> HIDE DEF m
  <2>1. m.p \subseteq pool /\ pool' = pool \ m.p
    BY <1>1, <1>2
  <2> QED
    BY <1>1, <1>2, <2>1, PostKeeps
<1>4. \A t : Cardinality(Queued(t)) \in Nat
  BY QueuedFinite DEF IInv
<1>5. /\ Cardinality(Queued("API"))' = Cardinality(Queued("API")) + 1
      /\ Cardinality(Queued("INPKT"))' = Cardinality(Queued("INPKT"))
      /\ Cardinality(Queued("CALLBACK"))' = Cardinality(Queued("CALLBACK"))
  BY <1>2, <1>3, <1>4
<1>6. TypeOK'
  BY <1>1, <1>3 DEF IInv, TypeOK, tcp
<1>7. Accounted'
  <2>1. Handling("API") \in Nat /\ Accounted
    BY DEF Handling, IInv
  <2>2. Cardinality(Queued("API")) + Handling("API") = 0
    BY <1>1, <2>1 DEF Accounted
  <2> QED
    BY <1>1, <1>3, <1>4, <1>5, <2>1, <2>2 DEF Accounted
<1>8. PendingCounts'
  BY <1>1, <1>5 DEF IInv, PendingCounts
<1> QED
  BY <1>3, <1>6, <1>7, <1>8 DEF IInv

LEMMA DeleteNetbufKeeps ==
  ASSUME IInv, NEW b \in Pbufs, DeleteNetbuf(b)
  PROVE  IInv'
<1>1. /\ UNCHANGED <<inpkt, msgapi, mbox, pending, at, type, hand, tcp, reass, asked>>
      /\ b \in kept /\ pool' = pool \cup {b} /\ kept' = kept \ {b}
  BY DEF DeleteNetbuf
<1>2. TypeOK'
  BY <1>1 DEF IInv, TypeOK, tcp
<1>3. ASSUME NEW e \in Pbufs PROVE Somewhere(e)' /\ Once(e)'
  <2>1. /\ InTcp(e)' <=> InTcp(e)
        /\ InReass(e)' <=> InReass(e)
        /\ InMbox(e)' <=> InMbox(e)
    BY <1>1, SameTcp, SameReass, SameMbox
  <2>2. Somewhere(e) /\ Once(e)
    BY DEF IInv, Placed
  <2> QED
    BY <1>1, <2>1, <2>2 DEF Somewhere, Once
<1>4. Apart' /\ HandInv'
  BY <1>1, SameTcp, SameReass, SameMbox DEF IInv, Apart, HandInv
<1>5. Accounted' /\ PendingCounts'
  BY <1>1, SameMbox DEF IInv, Accounted, PendingCounts, Handling
<1> QED
  BY <1>2, <1>3, <1>4, <1>5 DEF IInv, Placed

-----------------------------------------------------------------------------
LEMMA NextIInv == IInv /\ [Next]_vars => IInv'
<1> SUFFICES ASSUME IInv, [Next]_vars PROVE IInv'
  OBVIOUS
<1>1. CASE Frames
  BY <1>1, FrameKeeps DEF Frames
<1>2. CASE Thread
  BY <1>2, FetchKeeps, InputKeeps, FragmentKeeps, RequestKeeps, CallbackKeeps, ReclaimKeeps,
     FreePbufKeeps, DoneKeeps DEF Thread
<1>3. CASE ReassTimer \/ TcpTimer \/ Ask
  BY <1>3, ReassTimerKeeps, TcpTimerKeeps, AskKeeps
<1>4. CASE \E b \in Pbufs : DeleteNetbuf(b)
  BY <1>4, DeleteNetbufKeeps
<1>5. CASE UNCHANGED vars
  <2>1. TypeOK'
    BY <1>5 DEF IInv, TypeOK, vars, tcp
  <2>2. Placed' /\ Apart' /\ HandInv'
    BY <1>5, SameTcp, SameReass, SameMbox
    DEF vars, IInv, Placed, Somewhere, Once, Apart, HandInv, tcp
  <2>3. Accounted' /\ PendingCounts'
    BY <1>5, SameMbox DEF vars, IInv, Accounted, PendingCounts, Handling
  <2> QED
    BY <2>1, <2>2, <2>3 DEF IInv
<1> QED
  BY <1>1, <1>2, <1>3, <1>4, <1>5 DEF Next

\* The invariant holds in every state.
THEOREM Inductive == Spec => []IInv
BY InitIInv, NextIInv, PTL DEF Spec

\* The state keeps its types: no count of free messages passes its limits.
THEOREM TypeCorrect == Spec => []TypeOK
<1>1. IInv => TypeOK
  BY DEF IInv
<1> QED
  BY <1>1, Inductive, PTL

\* No pbuf is ever in two places, whatever step an interrupt falls between.
THEOREM PbufsApart == Spec => []OneOwner
<1>1. ASSUME IInv PROVE OneOwner
  <2>1. TypeOK /\ Placed /\ TcpApart /\ ReassApart /\ MboxApart
    BY <1>1 DEF IInv, Apart
  <2>2. DOMAIN mbox = 1 .. Len(mbox)
    BY <2>1 DEF TypeOK
  <2>3. ASSUME NEW l \in Places
        PROVE  /\ l.k \in {"ooseq", "refused"} => l.c \in Pcbs /\ l = [k |-> l.k, c |-> l.c]
               /\ l.k = "reass" => l.d \in Datagrams /\ l = [k |-> "reass", d |-> l.d]
               /\ l.k = "mbox" => l.i \in 1 .. Len(mbox) /\ l = [k |-> "mbox", i |-> l.i]
               /\ l.k \in {"pool", "hand", "kept", "leaked", "ooseq", "refused", "reass", "mbox"}
               /\ l.k \in {"pool", "hand", "kept", "leaked"} => l = [k |-> l.k]
    BY <2>2 DEF Places
  <2>4. ASSUME NEW l \in Places
        PROVE  At(l) \subseteq Pbufs
    BY <2>1, <2>2, <2>3 DEF At, TypeOK, Messages
  <2>5. ASSUME NEW l \in Places, NEW b \in At(l)
        PROVE  /\ l.k = "pool" => b \in pool
               /\ l.k = "hand" => b \in hand
               /\ l.k = "kept" => b \in kept
               /\ l.k = "leaked" => InTcp(b) /\ b \in leaked
               /\ l.k = "ooseq" => InTcp(b) /\ b \in ooseq[l.c] /\ l.c \in Pcbs
               /\ l.k = "refused" => InTcp(b) /\ b \in refused[l.c] /\ l.c \in Pcbs
               /\ l.k = "reass" => InReass(b) /\ b \in reass[l.d]
               /\ l.k = "mbox" => InMbox(b) /\ b \in mbox[l.i].p
    BY <2>3 DEF At, InTcp, InReass, InMbox
  <2>6. ASSUME NEW l \in Places, NEW m \in Places, NEW b, b \in At(l), b \in At(m)
        PROVE  l = m
    <3>1. b \in Pbufs /\ Once(b)
      BY <2>1, <2>4, <2>6 DEF Placed
    <3>2. l.k = m.k
      <4>1. /\ ~(l.k = "ooseq" /\ m.k = "refused") /\ ~(l.k = "refused" /\ m.k = "ooseq")
            /\ ~(l.k = "leaked" /\ m.k \in {"ooseq", "refused"})
            /\ ~(m.k = "leaked" /\ l.k \in {"ooseq", "refused"})
        BY <2>1, <2>5, <2>6, <3>1 DEF TcpApart
      <4> QED
        BY <2>3, <2>5, <2>6, <3>1, <4>1 DEF Once
    <3>3. /\ l.k \in {"ooseq", "refused"} => l.c = m.c
          /\ l.k = "reass" => l.d = m.d
          /\ l.k = "mbox" => l.i = m.i
      BY <2>1, <2>3, <2>5, <2>6, <3>1, <3>2 DEF TcpApart, ReassApart, MboxApart
    <3> QED
      BY <2>3, <3>2, <3>3
  <2> QED
    BY <2>6 DEF OneOwner
<1> QED
  BY <1>1, Inductive, PTL

\* Nor is one ever lost, but for those that tcp_input() forgets: a refused frame,
\* a dropped datagram and a callback all give back what they took.
THEOREM PbufsConserved == Spec => []NoneLost
<1>1. ASSUME IInv PROVE NoneLost
  <2>1. DOMAIN mbox = 1 .. Len(mbox)
    BY <1>1 DEF IInv, TypeOK
  <2>2. ASSUME NEW b \in Pbufs PROVE \E l \in Places : b \in At(l)
    <3>1. Somewhere(b)
      BY <1>1 DEF IInv, Placed
    <3>2. ASSUME NEW k \in {"pool", "hand", "kept", "leaked"}, b \in At([k |-> k])
          PROVE  \E l \in Places : b \in At(l)
      <4>1. [k |-> k] \in Places
        BY DEF Places
      <4> QED
        BY <3>2, <4>1
    <3>3. b \in pool \/ b \in hand \/ b \in kept \/ b \in leaked => \E l \in Places : b \in At(l)
      BY <3>2 DEF At
    <3>4. ASSUME NEW c \in Pcbs, b \in ooseq[c] PROVE \E l \in Places : b \in At(l)
      <4>1. [k |-> "ooseq", c |-> c] \in Places /\ b \in At([k |-> "ooseq", c |-> c])
        BY <3>4 DEF Places, At
      <4> QED
        BY <4>1
    <3>7. ASSUME NEW c \in Pcbs, b \in refused[c] PROVE \E l \in Places : b \in At(l)
      <4>1. [k |-> "refused", c |-> c] \in Places /\ b \in At([k |-> "refused", c |-> c])
        BY <3>7 DEF Places, At
      <4> QED
        BY <4>1
    <3>5. ASSUME NEW d \in Datagrams, b \in reass[d] PROVE \E l \in Places : b \in At(l)
      <4>1. [k |-> "reass", d |-> d] \in Places /\ b \in At([k |-> "reass", d |-> d])
        BY <3>5 DEF Places, At
      <4> QED
        BY <4>1
    <3>6. ASSUME NEW i \in 1 .. Len(mbox), b \in mbox[i].p PROVE \E l \in Places : b \in At(l)
      <4>1. [k |-> "mbox", i |-> i] \in Places /\ b \in At([k |-> "mbox", i |-> i])
        BY <2>1, <3>6 DEF Places, At
      <4> QED
        BY <4>1
    <3> QED
      BY <3>1, <3>3, <3>4, <3>5, <3>6, <3>7 DEF Somewhere, InTcp, InReass, InMbox
  <2> QED
    BY <2>2 DEF NoneLost
<1> QED
  BY <1>1, Inductive, PTL

-----------------------------------------------------------------------------
(* The messages.                                                           *)

LEMMA HeldCounts ==
  ASSUME IInv, NEW t
  PROVE  Held(t) = Cardinality(Queued(t)) + Handling(t)
<1>1. DOMAIN mbox = 1 .. Len(mbox)
  BY DEF IInv, TypeOK
<1>2. {i \in DOMAIN mbox : mbox[i].type = t} = Queued(t)
  BY <1>1 DEF Queued
<1> QED
  BY <1>2 DEF Held, Handling

\* No struct tcpip_msg is lost, and the web thread has one request at a time.
THEOREM MessagesKept == Spec => []MessagesAccounted
<1>1. ASSUME IInv PROVE MessagesAccounted
  <2>1. inpkt \in Nat /\ msgapi \in Nat
    BY <1>1 DEF IInv, TypeOK
  <2>2. \A t : Cardinality(Queued(t)) \in Nat /\ Handling(t) \in Nat
    BY <1>1, QueuedFinite DEF IInv, Handling
  <2>3. \A t : Held(t) = Cardinality(Queued(t)) + Handling(t)
    BY <1>1, HeldCounts
  <2> QED
    BY <1>1, <2>1, <2>2, <2>3 DEF IInv, Accounted, MessagesAccounted
<1> QED
  BY <1>1, Inductive, PTL

\* The flag of the interrupt and tcpip_thread tells what is queued, in spite of
\* being written by both.
THEOREM FlagIsTrue == Spec => []PendingIsQueued
<1>1. ASSUME IInv PROVE PendingIsQueued
  <2>1. DOMAIN mbox = 1 .. Len(mbox)
    BY <1>1 DEF IInv, TypeOK
  <2> DEFINE Q == Queued("CALLBACK")
  <2>2. IsFiniteSet(Q) /\ Cardinality(Q) \in Nat /\ pending \in BOOLEAN
    BY <1>1, QueuedFinite DEF IInv, TypeOK
  <2>3. Cardinality(Q) + (IF at = "handle" /\ type = "CALLBACK" THEN 1 ELSE 0) = IF pending THEN 1 ELSE 0
    BY <1>1 DEF IInv, PendingCounts
  <2>4. Q = {} <=> Cardinality(Q) = 0
    <3> HIDE DEF Q
    <3> QED
      BY <2>2, FS_EmptySet
  <2>5. Cardinality(Q) \in {0, 1}
    <3> HIDE DEF Q
    <3> QED
      BY <2>2, <2>3
  <2>6. ASSUME NEW i \in Q, NEW j \in Q PROVE i = j
    <3> HIDE DEF Q
    <3>1. Cardinality(Q) = 1
      BY <2>4, <2>5
    <3>2. PICK e : Q = {e}
      BY <2>2, <3>1, FS_Singleton
    <3> QED
      BY <3>2
  <2>7. pending <=> Q # {} \/ (at = "handle" /\ type = "CALLBACK")
    <3> HIDE DEF Q
    <3> QED
      BY <2>2, <2>3, <2>4
  <2>8. Q # {} <=> \E i \in DOMAIN mbox : mbox[i].type = "CALLBACK"
    BY <2>1 DEF Queued
  <2>9. \A i, j \in DOMAIN mbox : mbox[i].type = "CALLBACK" /\ mbox[j].type = "CALLBACK" => i = j
    BY <2>1, <2>6 DEF Queued
  <2> HIDE DEF Q
  <2> QED
    BY <2>7, <2>8, <2>9 DEF PendingIsQueued
<1> QED
  BY <1>1, Inductive, PTL

\* Each pbuf and each message has one place, whatever fails.
THEOREM Conservation == Spec => []Conserved
<1>1. OneOwner /\ NoneLost /\ MessagesAccounted => Conserved
  BY DEF Conserved
<1> QED
  BY <1>1, PbufsApart, PbufsConserved, MessagesKept, PTL

\* Where there are messages enough, only a full mailbox refuses one.
THEOREM MailboxRefuses == Spec => []OnlyTheMailboxRefuses
<1>1. ASSUME IInv PROVE OnlyTheMailboxRefuses
  <2>1. /\ inpkt \in Nat /\ msgapi \in Nat /\ Len(mbox) \in Nat /\ Len(mbox) <= MboxSize
        /\ pending \in BOOLEAN /\ Accounted /\ PendingCounts
    BY <1>1 DEF IInv, TypeOK
  <2>2. \A t : Cardinality(Queued(t)) \in Nat /\ Cardinality(Queued(t)) <= Len(mbox)
    BY <1>1, QueuedFinite DEF IInv
  <2>3. \A t : Handling(t) \in {0, 1}
    BY DEF Handling
  <2>4. MboxSize \in Nat /\ NumInpkt \in Nat /\ NumMsgApi \in Nat
    OBVIOUS
  <2>5. ASSUME NumInpkt > MboxSize, inpkt = 0 PROVE Full
    <3>1. Cardinality(Queued("INPKT")) + Handling("INPKT") = NumInpkt
      BY <2>1, <2>2, <2>3, <2>5 DEF Accounted
    <3>2. Cardinality(Queued("INPKT")) >= MboxSize
      BY <2>2, <2>3, <2>4, <2>5, <3>1
    <3> QED
      BY <2>1, <2>2, <2>4, <3>2 DEF Full
  <2>6. ASSUME NumMsgApi > 1, msgapi = 0 PROVE pending
    <3>1. Cardinality(Queued("CALLBACK")) + Handling("CALLBACK") = NumMsgApi
      BY <2>1, <2>2, <2>3, <2>6 DEF Accounted
    <3>2. Cardinality(Queued("CALLBACK")) >= 1
      BY <2>2, <2>3, <2>4, <2>6, <3>1
    <3> QED
      BY <2>1, <2>2, <3>2 DEF PendingCounts
  <2> QED
    BY <2>1, <2>5, <2>6 DEF OnlyTheMailboxRefuses
<1> QED
  BY <1>1, Inductive, PTL
=============================================================================
