----------------------------- MODULE MCPairing -----------------------------
(* Pairing on small instances.                                             *)
EXTENDS Pairing
=============================================================================
