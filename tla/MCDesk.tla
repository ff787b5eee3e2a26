------------------------------- MODULE MCDesk -------------------------------
(* Instances of Desk for TLC. *)
EXTENDS Desk, TLC

CONSTANTS k1, k2, r1, r2, x1, d1

\* One operator of either role that writes.
RoleOfToken == [t \in Tokens |-> IF t = k1 THEN "dispatcher" ELSE "engineer"]

Symmetry == Permutations(Requests)
=============================================================================
