----------------------------- MODULE MCPresence -----------------------------
(***************************************************************************)
(* Two listeners and a short time: clients and states are interchangeable. *)
(***************************************************************************)
EXTENDS Presence

Symmetry == Permutations(Client) \cup Permutations(State)
=============================================================================
