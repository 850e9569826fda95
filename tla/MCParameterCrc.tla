--------------------------- MODULE MCParameterCrc ---------------------------
(* Objects of 1, 1 and up to 2 bytes, of which the second has no check     *)
(* sum: up to 3 bytes for a block of 2, so that a dictionary may be        *)
(* smaller than the block, fill it exactly or be larger.                   *)
EXTENDS ParameterCrc
=============================================================================
