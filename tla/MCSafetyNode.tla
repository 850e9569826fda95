---------------------------- MODULE MCSafetyNode ----------------------------
(* Two valid check sums: one for an entry into Operational before a reset  *)
(* and one for an entry after it, or one kept over the reset.              *)
EXTENDS SafetyNode
=============================================================================
