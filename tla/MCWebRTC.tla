------------------------------ MODULE MCWebRTC ------------------------------
(***************************************************************************)
(* Two tabs, one of which may load its page again.                         *)
(***************************************************************************)
EXTENDS WebRTC

Ids == 1 .. 3

\* The order of three ids matters only between those of different tabs.
SomeIds == {ids \in [Client -> Ids] : IsInjective(ids) /\ \A client \in Restless : ids[client] # 2}
=============================================================================
