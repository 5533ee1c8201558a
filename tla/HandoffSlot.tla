---------------------------- MODULE HandoffSlot ----------------------------
(* What internal/sharedhandoff promises: a register with one writer that   *)
(* holds the last whole record, is read without a lock, and after a reboot *)
(* holds the last record that had settled or one published since.          *)
EXTENDS Naturals

CONSTANT Records

VARIABLES
  latest,  \* the record of the slot, 0 before the first
  kept,    \* the records a reboot may leave in it
  taken,   \* the record a Read under way has got hold of, or 0
  got      \* what the last Read returned, 0 for a refusal

slotVars == <<latest, kept, taken, got>>

SlotInit == latest = 0 /\ kept = {0} /\ taken = 0 /\ got = 0

Publish(r) ==
  /\ r > latest
  /\ latest' = r /\ kept' = kept \union {r}
  /\ UNCHANGED <<taken, got>>
Settle == kept' = {latest} /\ UNCHANGED <<latest, taken, got>>
Take == taken = 0 /\ latest # 0 /\ taken' = latest /\ UNCHANGED <<latest, kept, got>>
Return == taken' = 0 /\ got' \in {0, taken} /\ UNCHANGED <<latest, kept>>
Reboot ==
  /\ \E r \in kept : latest' = r /\ kept' = {r}
  /\ taken' = 0 /\ UNCHANGED got

SlotNext == (\E r \in Records : Publish(r)) \/ Settle \/ Take \/ Return \/ Reboot
SlotSpec == SlotInit /\ [][SlotNext]_slotVars
=============================================================================
