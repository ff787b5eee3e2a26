-------------------------- MODULE MCMissionIntake --------------------------
(* Instances of MissionIntake for TLC. *)
EXTENDS MissionIntake, TLC

CONSTANTS q1, m1, m2, s1, s2, o1, c1, k1

SameLimit == [q \in Quotas |-> 2]

EitherSign == {-1, 2}

Symmetry == Permutations(Missions) \union Permutations(Submitters)
=============================================================================
