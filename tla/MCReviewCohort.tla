--------------------------- MODULE MCReviewCohort ---------------------------
(* Model checking of ReviewCohort: writers and requests are interchangeable. *)
EXTENDS ReviewCohort, TLC

Parties == Permutations(Writers) \cup Permutations(Reviewers)
=============================================================================
