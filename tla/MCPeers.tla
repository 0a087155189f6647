------------------------------- MODULE MCPeers -------------------------------
(* Peers, instantiated for TLC. *)
EXTENDS Peers

CONSTANTS alice, bob

MCClients == {alice, bob}
=============================================================================
