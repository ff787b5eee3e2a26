----------------------------- MODULE MissionRun -----------------------------
(***************************************************************************)
(* Mission runs: the missionrun service and its table.  An operation reads *)
(* the row, asks the state machine, and writes the row if its version is   *)
(* the one read.  Complete writes twice: the actual units, then the status *)
(* under the version its first write left.                                 *)
(***************************************************************************)
EXTENDS Integers

CONSTANTS
  Runs,        \* ids of mission runs
  RunCallers,  \* request goroutines in the service
  Units,       \* actual units a request may report; 0 or less: none
  MaxRunVersion \* bound: operations begin on rows of fewer versions only

ASSUME RunAssumption == Units \subseteq Int /\ MaxRunVersion \in Nat

VARIABLES
  run,      \* mission_runs, by id
  runCall,  \* runCall[c]: the operation caller c is in, with what it has read
  claimed   \* history: claimed[r]: the units of the call that completed r

runVars == <<run, runCall, claimed>>

RunStatus == {"created", "assigned", "in_progress", "completed", "failed", "cancelled"}

RunTransitions ==
  {<<"created", "assigned">>, <<"created", "cancelled">>,
   <<"assigned", "in_progress">>, <<"assigned", "cancelled">>,
   <<"in_progress", "completed">>, <<"in_progress", "failed">>,
   <<"in_progress", "cancelled">>}

RunRow == [status : RunStatus \union {"absent"}, units : Int, version : Nat]

NoRun == [status |-> "absent", units |-> 0, version |-> 0]
NewRun == [status |-> "created", units |-> 0, version |-> 1]

\* The status each operation asks for, and the role that may call it.
Targets == {"assigned", "in_progress", "completed", "cancelled"}
RunRole(target) == IF target \in {"in_progress", "completed"} THEN "engineer" ELSE "dispatcher"

RunCall == [pc : {"units", "status"}, run : Runs, target : Targets, units : Int,
            version : Nat]

NoCall == [pc |-> "none"]

RunInit ==
  /\ run = [r \in Runs |-> NoRun]
  /\ runCall = [c \in RunCallers |-> NoCall]
  /\ claimed = [r \in Runs |-> 0]

\* Mutated WHERE clause: WHERE id = ?.
AnyRunVersion(r, v) == run[r].status # "absent"

RunWhere(r, v) == run[r].status # "absent" /\ run[r].version = v

UpdateActualUnits(r, n, v) ==
  IF RunWhere(r, v) THEN [run EXCEPT ![r].units = n, ![r].version = @ + 1] ELSE run

UpdateMissionRunStatus(r, status, v) ==
  IF RunWhere(r, v) THEN [run EXCEPT ![r].status = status, ![r].version = @ + 1] ELSE run

EndRunCall(c) == runCall' = [runCall EXCEPT ![c] = NoCall]

CreateRun(c, r) ==
  /\ runCall[c] = NoCall
  /\ run[r].status = "absent"
  /\ run' = [run EXCEPT ![r] = NewRun]
  /\ UNCHANGED <<runCall, claimed>>

\* The units a call knows the run by: those it reports or, when it reports
\* none, those of the row it has read.
UnitsOfCall(r, n) == IF n > 0 THEN n ELSE run[r].units

\* Assign, StartProgress, Complete and Cancel read the row and ask the state
\* machine; Complete with units to report goes on with its first write.
ReadRun(c, r, target, n) ==
  /\ runCall[c] = NoCall
  /\ run[r].version < MaxRunVersion
  /\ <<run[r].status, target>> \in RunTransitions
  /\ target # "completed" => n = 0
  /\ runCall' = [runCall EXCEPT ![c] =
       [pc |-> IF n > 0 THEN "units" ELSE "status", run |-> r, target |-> target,
        units |-> UnitsOfCall(r, n), version |-> run[r].version]]
  /\ UNCHANGED <<run, claimed>>

WriteUnits(c) ==
  /\ runCall[c].pc = "units"
  /\ LET call == runCall[c] IN
       /\ run' = UpdateActualUnits(call.run, call.units, call.version)
       /\ IF RunWhere(call.run, call.version)
          THEN runCall' = [runCall EXCEPT ![c].pc = "status", ![c].version = @ + 1]
          ELSE EndRunCall(c)
  /\ UNCHANGED claimed

WriteStatus(c) ==
  /\ runCall[c].pc = "status"
  /\ LET call == runCall[c] IN
       /\ run' = UpdateMissionRunStatus(call.run, call.target, call.version)
       /\ claimed' = IF run' # run /\ call.target = "completed"
                     THEN [claimed EXCEPT ![call.run] = call.units]
                     ELSE claimed
  /\ EndRunCall(c)

\* A statement fails: whatever was written before stays.
RunCallFails(c) ==
  /\ runCall[c] # NoCall
  /\ EndRunCall(c)
  /\ UNCHANGED <<run, claimed>>

-----------------------------------------------------------------------------
(* Properties.                                                             *)

RunTypeOK ==
  /\ run \in [Runs -> RunRow]
  /\ runCall \in [RunCallers -> RunCall \union {NoCall}]
  /\ claimed \in [Runs -> Int]

\* The service implements the lifecycle of a run.
RunLife == INSTANCE Lifecycle WITH
             Items <- Runs, Born <- "created", Edges <- RunTransitions,
             status <- [r \in Runs |-> run[r].status]

RunLifecycle == RunLife!LifecycleSpec

\* Two engineers may complete a run at once, each writes twice and either
\* write may fail.  A completed run has the units of the call that completed
\* it: those it reported or, when it reported none, those it had read.  The
\* latter may be left from a Complete whose second write failed; units that
\* slipped in after the call read the run are never completed with.
CompletersUnits ==
  \A r \in Runs : run[r].status = "completed" => run[r].units = claimed[r]
=============================================================================
