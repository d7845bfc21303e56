---------------------------- MODULE MCHeartbeat -----------------------------
(* Heartbeat for TLC: a long lease is followed by a short one. *)
EXTENDS Heartbeat, TLC

CONSTANT a1

Durations == <<8, 3>>
=============================================================================
