------------------------------ MODULE MCGroups ------------------------------
(* Instances of Groups: senders and keys are interchangeable.                 *)
EXTENDS Groups, TLC

Symmetry == Permutations(Sender) \cup Permutations(Key)
=============================================================================
