----------------------------- MODULE MCRouting -----------------------------
(* Instances of Routing for TLC. *)
EXTENDS Routing, TLC

CONSTANTS v1, v2, v3, d1

=============================================================================
