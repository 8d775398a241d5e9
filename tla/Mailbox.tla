------------------------------ MODULE Mailbox ------------------------------
(***************************************************************************)
(* What a queue of the kernel promises to its callers: a call takes effect *)
(* once or not at all, and one that ends without effect was given a time   *)
(* limit.  Interrupts use it without calling.                              *)
(***************************************************************************)
EXTENDS Naturals

CONSTANTS Clients,   \* tasks
          QLen       \* messages the queue holds

VARIABLES count,     \* messages in it
          call,      \* the call each client is in: "none", "send" or "recv"
          limited    \* the clients whose call has a time limit

vars == <<count, call, limited>>

Init == count = 0 /\ call = [t \in Clients |-> "none"] /\ limited = {}

Ask(t, kind, lim) == /\ call[t] = "none" /\ kind \in {"send", "recv"}
                     /\ call' = [call EXCEPT ![t] = kind]
                     /\ limited' = IF lim THEN limited \cup {t} ELSE limited
                     /\ UNCHANGED count

End(t) == call' = [call EXCEPT ![t] = "none"] /\ limited' = limited \ {t}

Put == count < QLen /\ count' = count + 1
Get == count > 0 /\ count' = count - 1

Send(t)   == call[t] = "send" /\ Put /\ End(t)
Recv(t)   == call[t] = "recv" /\ Get /\ End(t)
GiveUp(t) == t \in limited /\ End(t) /\ UNCHANGED count

Interrupt == (Put \/ Get) /\ UNCHANGED <<call, limited>>

Next == \/ Interrupt
        \/ \E t \in Clients : \/ Send(t) \/ Recv(t) \/ GiveUp(t)
                              \/ \E kind \in {"send", "recv"}, lim \in BOOLEAN : Ask(t, kind, lim)

Spec == Init /\ [][Next]_vars
=============================================================================
