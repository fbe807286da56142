--------------------------- MODULE MCSharedState ---------------------------
(***************************************************************************)
(* Clients of one shared value, one of which mounts its component again.   *)
(***************************************************************************)
EXTENDS SharedState

CONSTANT Restless

Mounts == [client \in Conn |-> IF client \in Restless THEN 2 ELSE 1]
=============================================================================
