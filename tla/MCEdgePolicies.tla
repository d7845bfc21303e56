--------------------------- MODULE MCEdgePolicies ---------------------------
(* EdgePolicies for TLC: two passes at once. *)
EXTENDS EdgePolicies, TLC

CONSTANTS p1, p2

Symmetry == Permutations(Passes)
=============================================================================
