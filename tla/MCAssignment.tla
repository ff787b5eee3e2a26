---------------------------- MODULE MCAssignment ----------------------------
(* Instances of Assignment for TLC. *)
EXTENDS Assignment, TLC

CONSTANTS t1, t2, e1, e2, h1, w1

\* One worker runs under its own id, which is also the id HTTP clients use.
OneWorkerId == [w \in Workers |-> e1]

\* Every task has a priority of its own.
StrictRank == [t \in Tasks |-> IF t = t1 THEN 0 ELSE 1]

Symmetry == Permutations(Handlers) \union Permutations(Leases)
=============================================================================
