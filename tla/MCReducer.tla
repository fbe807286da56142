----------------------------- MODULE MCReducer -----------------------------
(***************************************************************************)
(* A few clients of one reducer, some of which mount two components.       *)
(***************************************************************************)
EXTENDS Reducer

CONSTANT Restless

Mounts == [client \in Conn |-> IF client \in Restless THEN 2 ELSE 1]
=============================================================================
