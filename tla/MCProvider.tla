----------------------------- MODULE MCProvider -----------------------------
(***************************************************************************)
(* A page that is opened with a link to a room or without one.             *)
(***************************************************************************)
EXTENDS Provider
=============================================================================
