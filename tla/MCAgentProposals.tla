-------------------------- MODULE MCAgentProposals --------------------------
(* Model checking of AgentProposals.  Requests, workers and runs are         *)
(* interchangeable; proposals are not, some act alone.                       *)
EXTENDS AgentProposals, TLC

Parties == Permutations(Requests) \cup Permutations(Workers) \cup Permutations(Runs)
=============================================================================
