------------------------------- MODULE TxSlot -------------------------------
(***************************************************************************)
(* What the transmit path of the Ethernet driver promises to its callers:  *)
(* one frame at a time.  The single transmit slot (g_mac_tx_buffer[0] and  *)
(* descriptor 0) is free, being filled by one sender, or owned by the DMA  *)
(* engine until the frame of that sender has left.  Only a transmission    *)
(* that ends in a fault may take the slot away for good.                   *)
(***************************************************************************)
CONSTANTS Senders,     \* tasks that call low_level_output()
          NoTask,      \* the owner of a slot nobody has used yet
          MayFault     \* TRUE if a transmission may end in a fault

VARIABLES phase,       \* "free", "filling", "flying" or "dead"
          owner        \* the last sender the slot was given to

vars == <<phase, owner>>

Init == phase = "free" /\ owner = NoTask

\* A sender is given the free slot and nobody else is until it lands.
Claim(t) == phase = "free" /\ phase' = "filling" /\ owner' = t

\* Only the sender that filled the slot starts the transmission.
Launch(t) == phase = "filling" /\ owner = t /\ phase' = "flying" /\ UNCHANGED owner

Land == phase = "flying" /\ phase' = "free" /\ UNCHANGED owner

Fault == MayFault /\ phase = "flying" /\ phase' = "dead" /\ UNCHANGED owner

Next == (\E t \in Senders : Claim(t) \/ Launch(t)) \/ Land \/ Fault

Spec == Init /\ [][Next]_vars
=============================================================================
