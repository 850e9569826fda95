--------------------------- MODULE MCParameterSet ---------------------------
(* Parameter sets of one to three objects out of two, one of which another   *)
(* version of the program has stored and this one does not know.           *)
EXTENDS ParameterSet
=============================================================================
