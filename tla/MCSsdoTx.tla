------------------------------ MODULE MCSsdoTx ------------------------------
(* The SSDO transmit channel with short timeouts: a timeout of one cycle   *)
(* expires before, while and after the PCP works on a frame, so all        *)
(* interleavings of a late acknowledge and a timeout occur.                *)
EXTENDS SsdoTx
=============================================================================
