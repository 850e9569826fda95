--------------------------- MODULE MCTripleBuffer ---------------------------
(* One channel in each direction, so that both ports acknowledge the same  *)
(* and different channels at one clock edge.  One word per channel is      *)
(* enough: the memories are switched as a whole, and an image of one word  *)
(* that changes under its consumer is a torn image of several.             *)
EXTENDS TripleBuffer

CONSTANTS toAp, toPcp, w1
=============================================================================
