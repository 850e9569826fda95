------------------------------- MODULE MCFifo -------------------------------
(* Three slots and two different elements: the positions wrap at other     *)
(* steps than the UINT8 counters, which go through all their 256 values.   *)
EXTENDS Fifo

CONSTANTS e1, e2
=============================================================================
