----------------------------- MODULE MCInsights -----------------------------
(* Insights on a small instance: the groups of the run are interchangeable;   *)
(* findings are not, the rules settle them in id order.                      *)
EXTENDS Insights, TLC

Symmetry == Permutations(Groups)
=============================================================================
