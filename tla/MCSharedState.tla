--------------------------- MODULE MCSharedState ---------------------------
(* SharedState on small instances.                                         *)
EXTENDS SharedState, TLC

\* Advertisements, tunnels and tasks are interchangeable.
Symmetry == Permutations(Peers) \cup Permutations(Tunnels) \cup Permutations(Tasks)
=============================================================================
