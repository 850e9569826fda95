------------------------------- MODULE MCBoot -------------------------------
(* Two resets: one of each processor, or two of the same one. *)
EXTENDS Boot
=============================================================================
