------------------------------ MODULE MCClient ------------------------------
(***************************************************************************)
(* A client and few sockets.                                               *)
(***************************************************************************)
EXTENDS Client
=============================================================================
