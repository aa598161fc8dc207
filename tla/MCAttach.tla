------------------------------ MODULE MCAttach ------------------------------
(* Attach on small instances. *)
EXTENDS Attach, TLC

\* Processes and peers are alike, and so are the two contents.
Symmetry == {f @@ g @@ h : f \in Permutations(Runs), g \in Permutations(Peers),
                           h \in Permutations(Contents)}

TwoFiles == 1..2

OneFile == 1..1
=============================================================================
