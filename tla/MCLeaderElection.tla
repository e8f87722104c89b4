-------------------------- MODULE MCLeaderElection --------------------------
(* Model-checking instances of LeaderElection. *)
EXTENDS LeaderElection, TLC

\* Daemons are interchangeable, and so are lease ids.  Safety runs only.
Symmetry == Permutations(Node) \cup Permutations(LeaseId)
=============================================================================
