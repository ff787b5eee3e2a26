-------------------------------- MODULE Desk --------------------------------
(***************************************************************************)
(* The operators' desk: HTTP requests that are admitted with a session,    *)
(* checked for the role their route demands, and then run one operation of *)
(* the missionrun or the handover service.  The principal is put into the  *)
(* request's context when it is admitted and not looked at again.          *)
(*                                                                         *)
(* A request may fail at any statement and any number of them may; a crash *)
(* of the scheduler is the failure of every request, for all that is kept  *)
(* is in the tables.                                                       *)
(***************************************************************************)
EXTENDS Session, MissionRun, Handover

ASSUME DeskAssumption == RunCallers = Requests /\ HandoverCallers = Requests

deskVars == <<sessionVars, runVars, handoverVars>>

DeskInit == SessionInit /\ RunInit /\ HandoverInit

\* Nothing of the operation has been done.
Unbegun(r) == runCall[r] = NoCall /\ handoverCall[r] = NoDecision

Answered(r) == Leave(r) /\ UNCHANGED <<session, farewell>>

SessionPart ==
  /\ SessionClock \/ \E r \in Requests : SessionStep(r)
  /\ UNCHANGED <<runVars, handoverVars>>

RunCreated(r) ==
  /\ Serving(r, "dispatcher") /\ Unbegun(r)
  /\ \E x \in Runs : CreateRun(r, x)
  /\ Answered(r)
  /\ UNCHANGED handoverVars

RunRead(r) ==
  /\ Unbegun(r)
  /\ \E x \in Runs, target \in Targets, n \in Units :
       Serving(r, RunRole(target)) /\ ReadRun(r, x, target, n)
  /\ UNCHANGED <<sessionVars, handoverVars>>

RunWritten(r) ==
  /\ WriteUnits(r) \/ WriteStatus(r)
  /\ IF runCall'[r] = NoCall THEN Answered(r) ELSE UNCHANGED sessionVars
  /\ UNCHANGED handoverVars

HandoverCreated(r) ==
  /\ Serving(r, "engineer") /\ Unbegun(r)
  /\ \E d \in Documents : CreateHandover(r, d)
  /\ Answered(r)
  /\ UNCHANGED runVars

HandoverRead(r) ==
  /\ Serving(r, "engineer") /\ Unbegun(r)
  /\ \E d \in Documents, decision \in Decisions : ReadHandover(r, d, decision)
  /\ UNCHANGED <<sessionVars, runVars>>

HandoverWritten(r) ==
  /\ WriteHandover(r)
  /\ Answered(r)
  /\ UNCHANGED runVars

\* The request is refused by its role or by the state machine, or a statement
\* of it fails.
Failed(r) ==
  /\ RequestFails(r)
  /\ IF runCall[r] = NoCall THEN UNCHANGED runVars ELSE RunCallFails(r)
  /\ IF handoverCall[r] = NoDecision THEN UNCHANGED handoverVars ELSE HandoverCallFails(r)

DeskNext ==
  \/ SessionPart
  \/ \E r \in Requests :
       \/ RunCreated(r)
       \/ RunRead(r)
       \/ RunWritten(r)
       \/ HandoverCreated(r)
       \/ HandoverRead(r)
       \/ HandoverWritten(r)
       \/ Failed(r)

DeskSpec == DeskInit /\ [][DeskNext]_deskVars

-----------------------------------------------------------------------------
(* Properties.                                                             *)

\* Rows and calls stay within their domains, and a request runs an operation
\* only while it is served.
DeskTypeOK ==
  /\ SessionTypeOK
  /\ RunTypeOK
  /\ HandoverTypeOK
  /\ \A r \in Requests : Unbegun(r) \/ req[r].pc = "serving"
=============================================================================
