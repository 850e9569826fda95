------------------------------ MODULE MCSsdoRx ------------------------------
(* The SSDO receive channel with as many write accesses as the FIFO has    *)
(* slots, so that frames arrive while one is in work and after timeouts,   *)
(* and a timeout of two cycles, so that it expires before, while and after *)
(* the stack works on a frame.                                             *)
EXTENDS SsdoRx
=============================================================================
