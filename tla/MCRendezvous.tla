---------------------------- MODULE MCRendezvous ----------------------------
(* Instances of Rendezvous: clients, bridges and peers are interchangeable.   *)
EXTENDS Rendezvous, TLC

Symmetry == Permutations(Client) \cup Permutations(Bridge) \cup Permutations(Peer)
=============================================================================
