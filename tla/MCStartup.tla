----------------------------- MODULE MCStartup -----------------------------
(* An instance of Startup for TLC. *)
EXTENDS Startup, TLC

CONSTANTS old, new, migrate, executor

\* The scheduler of the previous image, the one that replaces it, and the
\* commands that run beside them.
KindOf == (old :> "scheduler") @@ (new :> "scheduler") @@ (migrate :> "migrate") @@ (executor :> "executor")

\* The previous image does not have the newest migration.
KnownOf == (old :> 1) @@ (new :> 2) @@ (migrate :> 2) @@ (executor :> 2)
=============================================================================
