---------------------------- MODULE MCSyncCycle -----------------------------
(* A timer of 9 ticks that turns over twice, a consecutive time of 8       *)
(* values that does so too, cycles of 3 to 5 ticks, a loop that looks in   *)
(* every tick, one change of a factor.                                     *)
EXTENDS SyncCycle
=============================================================================
