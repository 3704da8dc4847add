------------------------------- MODULE WriteOnce -------------------------------
(***************************************************************************)
(* What an immutable result document promises its readers: the name shows  *)
(* nothing or one complete payload, the payload never changes, and once    *)
(* the writer has settled it (its directory entry is synced) no crash takes *)
(* it back.  A publication that is not settled yet may be lost to a power  *)
(* failure.                                                                *)
(***************************************************************************)
CONSTANTS
  Payloads,   \* the complete documents that may be published
  None        \* the value of an unpublished name

VARIABLES
  value,      \* what a reader of the name sees
  settled     \* whether the publication survives every crash

vars == <<value, settled>>

Init == value = None /\ settled = FALSE

Publish(p) ==
  /\ value = None
  /\ value' = p
  /\ UNCHANGED settled

Settle ==
  /\ value # None
  /\ settled' = TRUE
  /\ UNCHANGED value

Lose ==
  /\ ~settled
  /\ value' = None
  /\ UNCHANGED settled

Next == (\E p \in Payloads : Publish(p)) \/ Settle \/ Lose

Spec == Init /\ [][Next]_vars
================================================================================
