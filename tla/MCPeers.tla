------------------------------ MODULE MCPeers -------------------------------
(* Instances of Peers: two hosts contend for one label.                       *)
EXTENDS Peers, TLC

Symmetry == Permutations(HostId)
=============================================================================
