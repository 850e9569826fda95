----------------------------- MODULE MCLogbook ------------------------------
(* The logbook channel with timeouts of one cycle: they expire before,     *)
(* while and after the PCP works on an entry, and posts of the loop and of *)
(* interrupts meet in all orders.                                          *)
EXTENDS Logbook
=============================================================================
