----------------------------- MODULE MCNightly ------------------------------
(* Nightly on a small instance: nothing tells the workers apart.            *)
EXTENDS Nightly, TLC

Symmetry == Permutations(Workers)
=============================================================================
