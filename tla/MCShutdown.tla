----------------------------- MODULE MCShutdown -----------------------------
(* One process, two requests, and a second signal after the first.         *)
EXTENDS Shutdown, TLC

CONSTANTS r1, r2

MCRequests == {r1, r2}
Symmetry == Permutations(MCRequests)
=============================================================================
