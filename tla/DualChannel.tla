---------------------------- MODULE DualChannel ----------------------------
(* The two processors of a redundant safety node: built from the same      *)
(* sources, in -ma.c and -sl.c variants of some, and joined by a UART.     *)

Processor == {"master", "slave"}
Peer(p) == IF p = "master" THEN "slave" ELSE "master"
=============================================================================
