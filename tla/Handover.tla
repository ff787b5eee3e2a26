------------------------------ MODULE Handover ------------------------------
(***************************************************************************)
(* Maintenance handovers: the handover service and its table.  A document  *)
(* is created pending, by an engineer or with a mission, and confirmed or  *)
(* rejected by a read and an UPDATE guarded by the version read.           *)
(***************************************************************************)
EXTENDS Naturals

CONSTANTS
  Documents,        \* ids of handover documents
  HandoverCallers   \* request goroutines in the service

VARIABLES
  document,      \* maintenance_handovers, by id
  handoverCall   \* handoverCall[c]: the decision caller c is about to write

handoverVars == <<document, handoverCall>>

Decisions == {"confirmed", "rejected"}

DocumentTransitions == {"pending"} \X Decisions

DocumentRow == [status : Decisions \union {"absent", "pending"}, version : Nat]

HandoverCall == [document : Documents, decision : Decisions, version : Nat]

NoDecision == [decision |-> "none"]

HandoverInit ==
  /\ document = [d \in Documents |-> [status |-> "absent", version |-> 0]]
  /\ handoverCall = [c \in HandoverCallers |-> NoDecision]

\* Mutated WHERE clause: WHERE id = ?.
AnyDocumentVersion(d, v) == document[d].status # "absent"

DocumentWhere(d, v) == document[d].status # "absent" /\ document[d].version = v

\* Mutated statement: a status the table does not know.
DecisionClosed(d, decision, v) ==
  IF DocumentWhere(d, v)
  THEN [document EXCEPT ![d].status = "closed", ![d].version = @ + 1]
  ELSE document

UpdateHandoverStatus(d, decision, v) ==
  IF DocumentWhere(d, v)
  THEN [document EXCEPT ![d].status = decision, ![d].version = @ + 1]
  ELSE document

CreateHandover(c, d) ==
  /\ handoverCall[c] = NoDecision
  /\ document[d].status = "absent"
  /\ document' = [document EXCEPT ![d] = [status |-> "pending", version |-> 1]]
  /\ UNCHANGED handoverCall

\* Confirm and Reject look for a pending document.
ReadHandover(c, d, decision) ==
  /\ handoverCall[c] = NoDecision
  /\ document[d].status = "pending"
  /\ handoverCall' = [handoverCall EXCEPT ![c] =
       [document |-> d, decision |-> decision, version |-> document[d].version]]
  /\ UNCHANGED document

WriteHandover(c) ==
  /\ handoverCall[c] # NoDecision
  /\ LET h == handoverCall[c] IN
       document' = UpdateHandoverStatus(h.document, h.decision, h.version)
  /\ handoverCall' = [handoverCall EXCEPT ![c] = NoDecision]

HandoverCallFails(c) ==
  /\ handoverCall[c] # NoDecision
  /\ handoverCall' = [handoverCall EXCEPT ![c] = NoDecision]
  /\ UNCHANGED document

-----------------------------------------------------------------------------
(* Properties.                                                             *)

HandoverTypeOK ==
  /\ document \in [Documents -> DocumentRow]
  /\ handoverCall \in [HandoverCallers -> HandoverCall \union {NoDecision}]

\* The service implements the lifecycle of a handover document: it is decided
\* once, although two engineers may confirm and reject it at the same time.
HandoverLife == INSTANCE Lifecycle WITH
                  Items <- Documents, Born <- "pending", Edges <- DocumentTransitions,
                  status <- [d \in Documents |-> document[d].status]

HandoverLifecycle == HandoverLife!LifecycleSpec
=============================================================================
