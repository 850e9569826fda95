------------------------------- MODULE MCXCom -------------------------------
(* The processors compute the same frame or different ones. *)
EXTENDS XCom
=============================================================================
