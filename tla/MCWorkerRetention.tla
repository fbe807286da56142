------------------------- MODULE MCWorkerRetention -------------------------
(***************************************************************************)
(* A small durable object with a clock: sockets, keys and values are       *)
(* interchangeable.                                                        *)
(***************************************************************************)
EXTENDS WorkerRetention

Symmetry == Permutations(Socket) \cup Permutations(Key) \cup Permutations(Value)
=============================================================================
