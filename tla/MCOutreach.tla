----------------------------- MODULE MCOutreach -----------------------------
(* Model checking of Outreach.  Runs and review requests are interchangeable;*)
(* enrollments are not, a run takes them in id order.                        *)
EXTENDS Outreach, TLC

Workers == Permutations(Generators) \cup Permutations(Dispatchers) \cup Permutations(Reviewers)
=============================================================================
