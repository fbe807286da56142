--------------------------- MODULE MCSocketServer ---------------------------
(***************************************************************************)
(* A room with two connections, whose clients append.                     *)
(***************************************************************************)
EXTENDS SocketServer

SomeActions == {[type |-> "append"]}
=============================================================================
