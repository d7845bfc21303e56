--------------------------- MODULE MCTunnelDaemon ---------------------------
(* TunnelDaemon on small instances.                                        *)
EXTENDS TunnelDaemon, TLC

\* Targets, ports, connector names and clients are interchangeable.
Symmetry == Permutations(Targets) \cup Permutations(Ports)
            \cup Permutations(Conns) \cup Permutations(Clients)
=============================================================================
