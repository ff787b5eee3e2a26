----------------------------- MODULE DeskProofs -----------------------------
(* Proofs about Desk, for every set of tokens, requests, runs, documents    *)
(* and units, and any number of failures.                                   *)
EXTENDS Desk, TLAPS

-----------------------------------------------------------------------------
(* Handover documents.                                                      *)

docStatus == [d \in Documents |-> document[d].status]

\* A decision about to be written under the row's version finds it pending.
Deciding(c) ==
  LET h == handoverCall[c] IN
    /\ document[h.document].status # "absent"
    /\ h.version <= document[h.document].version
    /\ h.version = document[h.document].version => document[h.document].status = "pending"

HInv ==
  /\ HandoverTypeOK
  /\ \A c \in HandoverCallers : handoverCall[c] # NoDecision => Deciding(c)

HandoverMoves == HandoverLife!LifecycleNext \/ UNCHANGED docStatus

HandoverPart ==
  \/ \E c \in HandoverCallers, d \in Documents : CreateHandover(c, d)
  \/ \E c \in HandoverCallers, d \in Documents, decision \in Decisions :
       ReadHandover(c, d, decision)
  \/ \E c \in HandoverCallers : WriteHandover(c)
  \/ \E c \in HandoverCallers : HandoverCallFails(c)
  \/ UNCHANGED handoverVars

\* A caller that is in a decision has a call.
LEMMA DecisionType ==
  ASSUME HandoverTypeOK, NEW c \in HandoverCallers, handoverCall[c] # NoDecision
  PROVE  handoverCall[c] \in HandoverCall
BY DEF HandoverTypeOK

\* The table is empty and nobody decides.
LEMMA HandoverInitInv == HandoverInit => HInv /\ HandoverLife!LifecycleInit
BY DEF HandoverInit, HInv, HandoverTypeOK, DocumentRow, HandoverLife!LifecycleInit

\* Every step of the service keeps the invariant and moves one document along
\* an edge, or none.
LEMMA HandoverStep ==
  ASSUME HInv, HandoverPart
  PROVE  HInv' /\ HandoverMoves
<1> USE DEF HInv
<1>1. ASSUME NEW c \in HandoverCallers, NEW d \in Documents, CreateHandover(c, d)
      PROVE  HInv' /\ HandoverMoves
  <2>1. /\ document' = [document EXCEPT ![d] = [status |-> "pending", version |-> 1]]
        /\ document[d].status = "absent"
        /\ UNCHANGED handoverCall
    BY <1>1 DEF CreateHandover
  <2>2. HandoverTypeOK'
    BY <2>1 DEF HandoverTypeOK, DocumentRow
  <2>3. \A b \in HandoverCallers : handoverCall[b] # NoDecision => Deciding(b)'
    BY <2>1, DecisionType DEF Deciding, HandoverCall, HandoverTypeOK
  <2>4. docStatus' = [docStatus EXCEPT ![d] = "pending"]
    BY <2>1 DEF docStatus, HandoverTypeOK
  <2>5. HandoverLife!Bear(d)
    BY <2>1, <2>4 DEF HandoverLife!Bear, docStatus
  <2> QED
    BY <2>1, <2>2, <2>3, <2>5 DEF HandoverMoves, HandoverLife!LifecycleNext
<1>2. ASSUME NEW c \in HandoverCallers, NEW d \in Documents, NEW decision \in Decisions,
             ReadHandover(c, d, decision)
      PROVE  HInv' /\ HandoverMoves
  <2> DEFINE h == [document |-> d, decision |-> decision, version |-> document[d].version]
  <2>1. /\ handoverCall' = [handoverCall EXCEPT ![c] = h]
        /\ document[d].status = "pending"
        /\ UNCHANGED document
    BY <1>2 DEF ReadHandover
  <2>2. h \in HandoverCall
    BY DEF HandoverTypeOK, DocumentRow, HandoverCall
  <2>3. HandoverTypeOK'
    BY <2>1, <2>2 DEF HandoverTypeOK
  <2>4. \A b \in HandoverCallers : handoverCall'[b] # NoDecision => Deciding(b)'
    BY <2>1 DEF Deciding, HandoverTypeOK, DocumentRow
  <2> QED
    BY <2>1, <2>3, <2>4 DEF HandoverMoves, docStatus
<1>3. ASSUME NEW c \in HandoverCallers, WriteHandover(c)
      PROVE  HInv' /\ HandoverMoves
  <2>1. PICK d \in Documents, decision \in Decisions, v \in Nat :
          handoverCall[c] = [document |-> d, decision |-> decision, version |-> v]
    BY <1>3, DecisionType DEF WriteHandover, HandoverCall
  <2>2. /\ document' = UpdateHandoverStatus(d, decision, v)
        /\ handoverCall' = [handoverCall EXCEPT ![c] = NoDecision]
        /\ handoverCall[c] # NoDecision
    BY <1>3, <2>1 DEF WriteHandover
  <2>3. CASE DocumentWhere(d, v)
    <3>1. /\ document[d].status = "pending"
          /\ document[d].version = v
      BY <2>1, <2>2, <2>3 DEF Deciding, DocumentWhere
    <3>2. document' = [document EXCEPT ![d] = [status |-> decision, version |-> v + 1]]
      BY <2>2, <2>3, <3>1 DEF UpdateHandoverStatus, HandoverTypeOK, DocumentRow
    <3>3. HandoverTypeOK'
      BY <2>2, <3>2 DEF HandoverTypeOK, DocumentRow
    <3>4. ASSUME NEW b \in HandoverCallers, handoverCall'[b] # NoDecision
          PROVE  Deciding(b)'
      <4>1. handoverCall'[b] = handoverCall[b] /\ Deciding(b) /\ handoverCall[b] \in HandoverCall
        BY <2>2, <3>4, DecisionType DEF HandoverTypeOK
      <4> QED
        BY <3>1, <3>2, <4>1 DEF Deciding, HandoverCall, HandoverTypeOK, DocumentRow, Decisions
    <3>5. docStatus' = [docStatus EXCEPT ![d] = decision]
      BY <3>2 DEF docStatus, HandoverTypeOK
    <3>6. HandoverLife!Move(d)
      <4>1. <<"pending", decision>> \in DocumentTransitions
        BY DEF DocumentTransitions
      <4> QED
        BY <3>1, <3>5, <4>1 DEF HandoverLife!Move, docStatus
    <3> QED
      BY <3>3, <3>4, <3>6 DEF HandoverMoves, HandoverLife!LifecycleNext
  <2>4. CASE ~DocumentWhere(d, v)
    <3>1. UNCHANGED document
      BY <2>2, <2>4 DEF UpdateHandoverStatus
    <3> QED
      BY <2>2, <3>1 DEF HandoverMoves, docStatus, HandoverTypeOK, Deciding
  <2> QED
    BY <2>3, <2>4
<1>4. ASSUME NEW c \in HandoverCallers, HandoverCallFails(c)
      PROVE  HInv' /\ HandoverMoves
  BY <1>4 DEF HandoverCallFails, HandoverMoves, docStatus, HandoverTypeOK, Deciding
<1>5. CASE UNCHANGED handoverVars
  BY <1>5 DEF handoverVars, HandoverMoves, docStatus, HandoverTypeOK, Deciding
<1> QED
  BY <1>1, <1>2, <1>3, <1>4, <1>5 DEF HandoverPart

-----------------------------------------------------------------------------
(* Mission runs.                                                            *)

runStatus == [r \in Runs |-> run[r].status]

\* A call about to write under the row's version may take its edge, and finds
\* the units it has written or read.
Running(c) ==
  LET k == runCall[c] IN
    /\ run[k.run].status # "absent"
    /\ k.version <= run[k.run].version
    /\ k.version = run[k.run].version =>
         /\ <<run[k.run].status, k.target>> \in RunTransitions
         /\ k.pc = "status" => run[k.run].units = k.units

RInv ==
  /\ RunTypeOK
  /\ CompletersUnits
  /\ \A c \in RunCallers : runCall[c] # NoCall => Running(c)

RunMoves == RunLife!LifecycleNext \/ UNCHANGED runStatus

RunPart ==
  \/ \E c \in RunCallers, r \in Runs : CreateRun(c, r)
  \/ \E c \in RunCallers, r \in Runs, target \in Targets, n \in Units :
       ReadRun(c, r, target, n)
  \/ \E c \in RunCallers : WriteUnits(c) \/ WriteStatus(c) \/ RunCallFails(c)
  \/ UNCHANGED runVars

\* A caller that is in an operation has a call.
LEMMA RunCallType ==
  ASSUME RunTypeOK, NEW c \in RunCallers, runCall[c] # NoCall
  PROVE  runCall[c] \in RunCall
BY DEF RunTypeOK

\* The table is empty and nobody operates.
LEMMA RunInitInv == RunInit => RInv /\ RunLife!LifecycleInit
BY DEF RunInit, RInv, RunTypeOK, RunRow, NoRun, CompletersUnits, RunLife!LifecycleInit

\* The UPDATE of the units keeps the invariant and the statuses.
LEMMA UnitsStep ==
  ASSUME RInv, NEW c \in RunCallers, WriteUnits(c)
  PROVE  RInv' /\ UNCHANGED runStatus
<1> USE DEF RInv
<1>0. runCall[c] # NoCall /\ runCall[c].pc = "units"
  BY DEF WriteUnits, NoCall
<1>1. PICK r \in Runs, target \in Targets, n \in Int, v \in Nat :
        runCall[c] = [pc |-> "units", run |-> r, target |-> target, units |-> n, version |-> v]
  BY <1>0, RunCallType DEF RunCall
<1>2. /\ run' = UpdateActualUnits(r, n, v)
      /\ IF RunWhere(r, v)
         THEN runCall' = [runCall EXCEPT ![c].pc = "status", ![c].version = @ + 1]
         ELSE EndRunCall(c)
      /\ UNCHANGED claimed
  BY <1>1 DEF WriteUnits
<1>3. CASE RunWhere(r, v)
  <2>1. /\ run[r].version = v /\ run[r].status # "absent"
        /\ <<run[r].status, target>> \in RunTransitions
    BY <1>0, <1>1, <1>3 DEF Running, RunWhere
  <2>2. PICK s \in RunStatus \union {"absent"} : s = run[r].status
    BY DEF RunTypeOK, RunRow
  <2>3. run' = [run EXCEPT ![r] = [status |-> s, units |-> n, version |-> v + 1]]
    BY <1>2, <1>3, <2>1, <2>2 DEF UpdateActualUnits, RunTypeOK, RunRow
  <2> DEFINE k == [pc |-> "status", run |-> r, target |-> target, units |-> n, version |-> v + 1]
  <2>4. runCall' = [runCall EXCEPT ![c] = k]
    BY <1>1, <1>2, <1>3 DEF RunTypeOK
  <2>5. RunTypeOK'
    <3>1. k \in RunCall
      BY DEF RunCall
    <3> HIDE DEF k
    <3> QED
      BY <1>2, <2>3, <2>4, <3>1 DEF RunTypeOK, RunRow
  <2>6. CompletersUnits'
    <3>1. s # "completed"
      BY <2>1, <2>2 DEF RunTransitions
    <3> QED
      BY <1>2, <2>3, <3>1 DEF CompletersUnits, RunTypeOK
  <2>7. ASSUME NEW b \in RunCallers, runCall'[b] # NoCall
        PROVE  Running(b)'
    <3>1. CASE b = c
      BY <2>1, <2>2, <2>3, <2>4, <3>1 DEF Running, RunTypeOK
    <3>2. CASE b # c
      <4>1. runCall'[b] = runCall[b] /\ Running(b) /\ runCall[b] \in RunCall
        BY <2>4, <2>7, <3>2, RunCallType DEF RunTypeOK
      <4> QED
        BY <2>1, <2>2, <2>3, <4>1 DEF Running, RunCall, RunTypeOK, RunRow
    <3> QED
      BY <3>1, <3>2
  <2>8. UNCHANGED runStatus
    BY <2>2, <2>3 DEF runStatus, RunTypeOK
  <2> QED
    BY <2>5, <2>6, <2>7, <2>8
<1>4. CASE ~RunWhere(r, v)
  <2>1. UNCHANGED run /\ runCall' = [runCall EXCEPT ![c] = NoCall]
    BY <1>2, <1>4 DEF UpdateActualUnits, EndRunCall
  <2> QED
    BY <1>2, <2>1 DEF RunTypeOK, CompletersUnits, Running, runStatus
<1> QED
  BY <1>3, <1>4

\* The UPDATE of the status keeps the invariant and takes an edge.
LEMMA StatusStep ==
  ASSUME RInv, NEW c \in RunCallers, WriteStatus(c)
  PROVE  RInv' /\ RunMoves
<1> USE DEF RInv
<1>0. runCall[c] # NoCall /\ runCall[c].pc = "status"
  BY DEF WriteStatus, NoCall
<1>1. PICK r \in Runs, target \in Targets, n \in Int, v \in Nat :
        runCall[c] = [pc |-> "status", run |-> r, target |-> target, units |-> n, version |-> v]
  BY <1>0, RunCallType DEF RunCall
<1>2. /\ run' = UpdateMissionRunStatus(r, target, v)
      /\ claimed' = IF run' # run /\ target = "completed"
                    THEN [claimed EXCEPT ![r] = n] ELSE claimed
      /\ runCall' = [runCall EXCEPT ![c] = NoCall]
  BY <1>1 DEF WriteStatus, EndRunCall
<1>3. CASE RunWhere(r, v)
  <2>1. /\ run[r].version = v /\ run[r].status # "absent"
        /\ <<run[r].status, target>> \in RunTransitions
        /\ run[r].units = n
    BY <1>0, <1>1, <1>3 DEF Running, RunWhere
  <2>2. run' = [run EXCEPT ![r] = [status |-> target, units |-> n, version |-> v + 1]]
    BY <1>2, <1>3, <2>1 DEF UpdateMissionRunStatus, RunTypeOK, RunRow
  <2>3. run' # run
    BY <2>1, <2>2 DEF RunTypeOK
  <2>4. RunTypeOK'
    <3>1. target \in RunStatus
      BY DEF Targets, RunStatus
    <3> QED
      BY <1>2, <2>2, <3>1 DEF RunTypeOK, RunRow
  <2>5. CompletersUnits'
    <3>1. CASE target = "completed"
      BY <1>2, <2>1, <2>2, <2>3, <3>1 DEF CompletersUnits, RunTypeOK
    <3>2. CASE target # "completed"
      BY <1>2, <2>2, <3>2 DEF CompletersUnits, RunTypeOK
    <3> QED
      BY <3>1, <3>2
  <2>6. ASSUME NEW b \in RunCallers, runCall'[b] # NoCall
        PROVE  Running(b)'
    <3>1. runCall'[b] = runCall[b] /\ Running(b) /\ runCall[b] \in RunCall
      BY <1>2, <2>6, RunCallType DEF RunTypeOK
    <3>2. target # "absent"
      BY DEF Targets
    <3> QED
      BY <2>1, <2>2, <3>1, <3>2 DEF Running, RunCall, RunTypeOK, RunRow
  <2>7. runStatus' = [runStatus EXCEPT ![r] = target]
    BY <2>2 DEF runStatus, RunTypeOK
  <2>8. RunLife!Move(r)
    BY <2>1, <2>7 DEF RunLife!Move, runStatus
  <2> QED
    BY <2>4, <2>5, <2>6, <2>8 DEF RunMoves, RunLife!LifecycleNext
<1>4. CASE ~RunWhere(r, v)
  <2>1. UNCHANGED run
    BY <1>2, <1>4 DEF UpdateMissionRunStatus
  <2> QED
    BY <1>2, <2>1 DEF RunTypeOK, CompletersUnits, Running, RunMoves, runStatus
<1> QED
  BY <1>3, <1>4

\* Every step of the service keeps the invariant and moves one run along an
\* edge, or none.
LEMMA RunStep ==
  ASSUME RInv, RunPart
  PROVE  RInv' /\ RunMoves
<1> USE DEF RInv
<1>1. ASSUME NEW c \in RunCallers, NEW r \in Runs, CreateRun(c, r)
      PROVE  RInv' /\ RunMoves
  <2>1. /\ run' = [run EXCEPT ![r] = [status |-> "created", units |-> 0, version |-> 1]]
        /\ run[r].status = "absent"
        /\ UNCHANGED <<runCall, claimed>>
    BY <1>1 DEF CreateRun, NewRun
  <2>2. RunTypeOK'
    BY <2>1 DEF RunTypeOK, RunRow, RunStatus
  <2>3. CompletersUnits'
    BY <2>1 DEF CompletersUnits, RunTypeOK
  <2>4. \A b \in RunCallers : runCall[b] # NoCall => Running(b)'
    BY <2>1, RunCallType DEF Running, RunCall, RunTypeOK
  <2>5. runStatus' = [runStatus EXCEPT ![r] = "created"]
    BY <2>1 DEF runStatus, RunTypeOK
  <2>6. RunLife!Bear(r)
    BY <2>1, <2>5 DEF RunLife!Bear, runStatus
  <2> QED
    BY <2>1, <2>2, <2>3, <2>4, <2>6 DEF RunMoves, RunLife!LifecycleNext
<1>2. ASSUME NEW c \in RunCallers, NEW r \in Runs, NEW target \in Targets, NEW n \in Units,
             ReadRun(c, r, target, n)
      PROVE  RInv' /\ RunMoves
  <2>1. PICK p \in {"units", "status"} :
          /\ runCall' = [runCall EXCEPT ![c] = [pc |-> p, run |-> r, target |-> target,
                                                units |-> UnitsOfCall(r, n),
                                                version |-> run[r].version]]
          /\ p = "status" => UnitsOfCall(r, n) = run[r].units
    BY <1>2 DEF ReadRun, UnitsOfCall
  <2>2. /\ <<run[r].status, target>> \in RunTransitions
        /\ UNCHANGED <<run, claimed>>
    BY <1>2 DEF ReadRun
  <2> DEFINE k == [pc |-> p, run |-> r, target |-> target, units |-> UnitsOfCall(r, n),
                   version |-> run[r].version]
  <2>3. k \in RunCall
    BY RunAssumption DEF RunTypeOK, RunRow, RunCall, UnitsOfCall
  <2>4. RunTypeOK'
    BY <2>1, <2>2, <2>3 DEF RunTypeOK
  <2>5. run[r].status # "absent"
    BY <2>2 DEF RunTransitions
  <2>6. ASSUME NEW b \in RunCallers, runCall'[b] # NoCall
        PROVE  Running(b)'
    BY <2>1, <2>2, <2>5, <2>6 DEF Running, RunTypeOK, RunRow
  <2> QED
    BY <2>2, <2>4, <2>6 DEF CompletersUnits, RunMoves, runStatus
<1>3. ASSUME NEW c \in RunCallers, RunCallFails(c)
      PROVE  RInv' /\ RunMoves
  BY <1>3 DEF RunCallFails, EndRunCall, RunMoves, runStatus, RunTypeOK, CompletersUnits, Running
<1>4. CASE UNCHANGED runVars
  BY <1>4 DEF runVars, RunMoves, runStatus, RunTypeOK, CompletersUnits, Running
<1> QED
  BY <1>1, <1>2, <1>3, <1>4, UnitsStep, StatusStep DEF RunPart, RunMoves

-----------------------------------------------------------------------------
(* Sessions.                                                                *)

\* A request that came late has got nowhere, and its session is still over.
Admitted(r) ==
  /\ session[req[r].token].issued
  /\ req[r].late => req[r].pc = "session" /\ ~Valid(req[r].token)

\* Whoever was told that a session is logged out revoked it.
SInv ==
  /\ SessionTypeOK
  /\ \A r \in Requests : req[r] # Waiting => Admitted(r)
  /\ \A t \in Tokens : farewell[t] # {} => session[t].revoked
  /\ OneFarewell

\* A request that is under way has a record.
LEMMA RequestType ==
  ASSUME SessionTypeOK, NEW r \in Requests, req[r] # Waiting
  PROVE  req[r] \in Req
BY DEF SessionTypeOK

\* No session, no request.
LEMMA SessionInitInv == SessionInit => SInv
BY DEF SessionInit, SInv, SessionTypeOK, SessionRow, NoSession, OneFarewell

\* A request leaves.
LEMMA LeaveInv ==
  ASSUME SInv, NEW r \in Requests, Leave(r), UNCHANGED <<session, farewell>>
  PROVE  SInv'
BY DEF SInv, Leave, SessionTypeOK, OneFarewell, Admitted, Valid

\* A request that did not come late goes on.
LEMMA TurnInv ==
  ASSUME SInv, NEW r \in Requests, NEW pc \in ReqPc, Turn(r, pc), req[r] # Waiting,
         ~req[r].late, UNCHANGED <<session, farewell>>
  PROVE  SInv'
<1>1. req[r] \in Req
  BY RequestType DEF SInv
<1>2. [req[r] EXCEPT !.pc = pc] \in Req
  BY <1>1 DEF Req
<1>3. req' = [req EXCEPT ![r] = [req[r] EXCEPT !.pc = pc]]
  BY DEF Turn
<1>4. SessionTypeOK'
  BY <1>2, <1>3 DEF SInv, SessionTypeOK
<1>5. ASSUME NEW o \in Requests, req'[o] # Waiting
      PROVE  Admitted(o)'
  <2>1. CASE o = r
    BY <1>1, <1>3, <2>1 DEF SInv, SessionTypeOK, Req, Admitted, Valid
  <2>2. CASE o # r
    <3>1. req'[o] = req[o]
      BY <1>3, <2>2 DEF SInv, SessionTypeOK
    <3> QED
      BY <1>5, <3>1 DEF SInv, Admitted, Valid
  <2> QED
    BY <2>1, <2>2
<1> QED
  BY <1>4, <1>5 DEF SInv, OneFarewell

\* A login, or a session that runs out.
LEMMA ClockInv ==
  ASSUME SInv, SessionClock
  PROVE  SInv'
<1>1. PICK t \in Tokens, s \in SessionRow :
        /\ session' = [session EXCEPT ![t] = s]
        /\ s.revoked = session[t].revoked
        /\ s.issued
        /\ session[t].issued => s.expired
        /\ UNCHANGED <<req, farewell>>
  <2>1. PICK t \in Tokens : Login(t) \/ Lapse(t)
    BY DEF SessionClock
  <2>2. session[t] \in SessionRow
    BY DEF SInv, SessionTypeOK
  <2>3. CASE Login(t)
    <3>1. session' = [session EXCEPT ![t] = [session[t] EXCEPT !.issued = TRUE]]
      BY <2>3 DEF Login
    <3>2. [session[t] EXCEPT !.issued = TRUE] \in SessionRow
      BY <2>2 DEF SessionRow
    <3> QED
      BY <2>2, <2>3, <3>1, <3>2 DEF Login, SessionRow
  <2>4. CASE Lapse(t)
    <3>1. session' = [session EXCEPT ![t] = [session[t] EXCEPT !.expired = TRUE]]
      BY <2>4 DEF Lapse
    <3>2. [session[t] EXCEPT !.expired = TRUE] \in SessionRow
      BY <2>2 DEF SessionRow
    <3> QED
      BY <2>2, <2>4, <3>1, <3>2 DEF Lapse, SessionRow
  <2> QED
    BY <2>1, <2>3, <2>4
<1>2. SessionTypeOK'
  BY <1>1 DEF SInv, SessionTypeOK
<1>3. ASSUME NEW r \in Requests, req[r] # Waiting
      PROVE  Admitted(r)'
  <2>1. req[r].token \in Tokens
    BY <1>3, RequestType DEF SInv, Req
  <2> QED
    BY <1>1, <1>3, <2>1 DEF SInv, SessionTypeOK, Admitted, Valid
<1>4. \A k \in Tokens : farewell[k] # {} => session'[k].revoked
  BY <1>1 DEF SInv, SessionTypeOK
<1> QED
  BY <1>1, <1>2, <1>3, <1>4 DEF SInv, OneFarewell

\* A request arrives, is authenticated or logs its session out.
LEMMA SessionStepInv ==
  ASSUME SInv, NEW r \in Requests, SessionStep(r)
  PROVE  SInv'
<1>1. ASSUME NEW t \in Tokens, NEW logout \in BOOLEAN, Arrive(r, t, logout)
      PROVE  SInv'
  <2> DEFINE q == [pc |-> "session", token |-> t, logout |-> logout, late |-> ~Valid(t)]
  <2>1. /\ req' = [req EXCEPT ![r] = q]
        /\ session[t].issued
        /\ UNCHANGED <<session, farewell>>
    BY <1>1 DEF Arrive
  <2>2. q \in Req
    <3>1. (~Valid(t)) \in BOOLEAN
      BY DEF Valid
    <3> QED
      BY <3>1, Zenon DEF Req, ReqPc
  <2>3. SessionTypeOK'
    BY <2>1, <2>2 DEF SInv, SessionTypeOK
  <2>4. ASSUME NEW o \in Requests, req'[o] # Waiting
        PROVE  Admitted(o)'
    <3>1. CASE o = r
      BY <2>1, <3>1 DEF SInv, SessionTypeOK, Admitted, Valid
    <3>2. CASE o # r
      <4>1. req'[o] = req[o]
        BY <2>1, <3>2 DEF SInv, SessionTypeOK
      <4> QED
        BY <2>1, <2>4, <4>1 DEF SInv, Admitted, Valid
    <3> QED
      BY <3>1, <3>2
  <2> QED
    BY <2>1, <2>3, <2>4 DEF SInv, OneFarewell
<1>2. CASE FindSession(r)
  <2>1. req[r] # Waiting
    BY <1>2 DEF FindSession, Waiting
  <2>2. CASE Leave(r)
    BY <1>2, <2>2, LeaveInv DEF FindSession
  <2>3. CASE ~Leave(r)
    <3>1. PICK pc \in ReqPc : Turn(r, pc) /\ Valid(req[r].token)
      BY <1>2, <2>3 DEF FindSession, Authentic, ReqPc
    <3>2. ~req[r].late
      BY <2>1, <3>1 DEF SInv, Admitted
    <3> QED
      BY <1>2, <2>1, <3>1, <3>2, TurnInv DEF FindSession
  <2> QED
    BY <2>2, <2>3
<1>3. CASE FindUser(r)
  <2>1. req[r] # Waiting /\ ~req[r].late
    BY <1>3 DEF FindUser, Waiting, SInv, Admitted
  <2>2. PICK pc \in ReqPc : Turn(r, pc)
    BY <1>3 DEF FindUser, ReqPc
  <2> QED
    BY <1>3, <2>1, <2>2, TurnInv DEF FindUser
<1>4. CASE Revoke(r)
  <2>1. req[r] # Waiting /\ req[r].token \in Tokens
    BY <1>4, RequestType DEF Revoke, Waiting, SInv, Req
  <2>2. PICK t \in Tokens : t = req[r].token
    BY <2>1
  <2>3. Leave(r)
    BY <1>4 DEF Revoke
  <2>4. CASE ~RevokeWhere(t)
    BY <1>4, <2>2, <2>3, <2>4, LeaveInv DEF Revoke
  <2>5. CASE RevokeWhere(t)
    <3> DEFINE s == [session[t] EXCEPT !.revoked = TRUE]
    <3>1. /\ session' = [session EXCEPT ![t] = s]
          /\ farewell' = [farewell EXCEPT ![t] = @ \union {r}]
          /\ req' = [req EXCEPT ![r] = Waiting]
      BY <1>4, <2>2, <2>5 DEF Revoke, Leave
    <3>2. farewell[t] = {}
      BY <2>5 DEF RevokeWhere, SInv
    <3>3. session[t] \in SessionRow
      BY DEF SInv, SessionTypeOK
    <3>4. s \in SessionRow /\ s.revoked /\ s.issued = session[t].issued
      BY <3>3 DEF SessionRow
    <3>5. SessionTypeOK'
      BY <3>1, <3>4 DEF SInv, SessionTypeOK
    <3>6. ASSUME NEW o \in Requests, req'[o] # Waiting
          PROVE  Admitted(o)'
      <4>1. req'[o] = req[o] /\ req[o].token \in Tokens
        BY <3>1, <3>6, RequestType DEF SInv, SessionTypeOK, Req
      <4> QED
        BY <3>1, <3>4, <3>6, <4>1 DEF SInv, SessionTypeOK, Admitted, Valid
    <3>7. OneFarewell'
      BY <3>1, <3>2 DEF SInv, OneFarewell, SessionTypeOK
    <3>8. \A k \in Tokens : farewell'[k] # {} => session'[k].revoked
      BY <3>1, <3>4 DEF SInv, SessionTypeOK
    <3> QED
      BY <3>5, <3>6, <3>7, <3>8 DEF SInv
  <2> QED
    BY <2>4, <2>5
<1> QED
  BY <1>1, <1>2, <1>3, <1>4 DEF SessionStep

\* A statement of a request fails.
LEMMA RequestFailsInv ==
  ASSUME SInv, NEW r \in Requests, RequestFails(r)
  PROVE  SInv'
BY LeaveInv DEF RequestFails

-----------------------------------------------------------------------------
(* The desk.                                                                *)

\* A request runs an operation only while it is served, and one at a time.
Busy ==
  \A r \in Requests :
    /\ Unbegun(r) \/ req[r].pc = "serving"
    /\ runCall[r] = NoCall \/ handoverCall[r] = NoDecision

DInv == SInv /\ RInv /\ HInv /\ Busy

\* A step of one request leaves the others where they are.
LEMMA RestBusy ==
  ASSUME DInv, NEW r \in Requests,
         \A o \in Requests \ {r} : /\ req'[o] = req[o]
                                   /\ runCall'[o] = runCall[o]
                                   /\ handoverCall'[o] = handoverCall[o],
         (runCall'[r] = NoCall /\ handoverCall'[r] = NoDecision) \/ req'[r].pc = "serving",
         runCall'[r] = NoCall \/ handoverCall'[r] = NoDecision
  PROVE  Busy'
BY DEF DInv, Busy, Unbegun

\* Every step of the desk keeps the invariant, moves one run along an edge or
\* none, and one document or none.
LEMMA DeskStep ==
  ASSUME DInv, [DeskNext]_deskVars
  PROVE  DInv' /\ RunMoves /\ HandoverMoves
<1> USE DeskAssumption
<1>0. SInv /\ RInv /\ HInv /\ Busy
  BY DEF DInv
<1>a. /\ req \in [Requests -> Req \union {Waiting}]
      /\ runCall \in [Requests -> RunCall \union {NoCall}]
      /\ handoverCall \in [Requests -> HandoverCall \union {NoDecision}]
  BY <1>0 DEF SInv, SessionTypeOK, RInv, RunTypeOK, HInv, HandoverTypeOK
<1>b. UNCHANGED runVars => RInv' /\ RunMoves
  BY <1>0, RunStep DEF RunPart
<1>c. UNCHANGED handoverVars => HInv' /\ HandoverMoves
  BY <1>0, HandoverStep DEF HandoverPart
<1>d. UNCHANGED sessionVars => SInv'
  BY <1>0 DEF sessionVars, SInv, SessionTypeOK, Admitted, Valid, OneFarewell
<1>1. CASE UNCHANGED deskVars
  <2>1. Busy'
    BY <1>0, <1>1 DEF deskVars, sessionVars, runVars, handoverVars, Busy, Unbegun
  <2>2. UNCHANGED sessionVars /\ UNCHANGED runVars /\ UNCHANGED handoverVars
    BY <1>1 DEF deskVars
  <2> QED
    BY <1>b, <1>c, <1>d, <2>1, <2>2 DEF DInv
<1>2. CASE SessionPart
  <2>1. SInv'
    BY <1>0, <1>2, ClockInv, SessionStepInv DEF SessionPart
  <2>2. Busy'
    <3>1. UNCHANGED <<runCall, handoverCall>>
      BY <1>2 DEF SessionPart, runVars, handoverVars
    <3>2. \A r \in Requests : req[r].pc = "serving" => req'[r].pc = "serving"
      <4>1. CASE SessionClock
        BY <4>1 DEF SessionClock, Login, Lapse
      <4>2. ASSUME NEW o \in Requests, SessionStep(o)
            PROVE  /\ \A r \in Requests \ {o} : req'[r] = req[r]
                   /\ req[o].pc # "serving"
        BY <1>a, <4>2 DEF SessionStep, Arrive, FindSession, FindUser, Revoke, Turn, Leave, Waiting
      <4> QED
        BY <1>2, <4>1, <4>2 DEF SessionPart
    <3> QED
      BY <1>0, <3>1, <3>2 DEF Busy, Unbegun
  <2> QED
    BY <1>2, <1>b, <1>c, <2>1, <2>2 DEF SessionPart, DInv
<1>3. ASSUME NEW r \in Requests, RunCreated(r)
      PROVE  DInv' /\ RunMoves /\ HandoverMoves
  <2>1. RInv' /\ RunMoves
    BY <1>0, <1>3, RunStep DEF RunCreated, RunPart
  <2>2. SInv'
    BY <1>0, <1>3, LeaveInv DEF RunCreated, Answered
  <2>3. Busy'
    <3>1. req' = [req EXCEPT ![r] = Waiting] /\ UNCHANGED <<runCall, handoverCall>> /\ Unbegun(r)
      BY <1>3 DEF RunCreated, Answered, Leave, CreateRun, handoverVars
    <3> QED
      BY <1>a, <3>1, RestBusy DEF Unbegun
  <2> QED
    BY <1>3, <1>c, <2>1, <2>2, <2>3 DEF RunCreated, DInv
<1>4. ASSUME NEW r \in Requests, RunRead(r)
      PROVE  DInv' /\ RunMoves /\ HandoverMoves
  <2>1. RInv' /\ RunMoves
    BY <1>0, <1>4, RunStep DEF RunRead, RunPart
  <2>2. Busy'
    <3>1. /\ \A o \in Requests \ {r} : runCall'[o] = runCall[o]
          /\ req[r].pc = "serving" /\ handoverCall[r] = NoDecision
      BY <1>4, <1>a DEF RunRead, ReadRun, Serving, Unbegun
    <3>2. UNCHANGED <<req, handoverCall>>
      BY <1>4 DEF RunRead, sessionVars, handoverVars
    <3> QED
      BY <3>1, <3>2, RestBusy
  <2> QED
    BY <1>4, <1>c, <1>d, <2>1, <2>2 DEF RunRead, DInv
<1>5. ASSUME NEW r \in Requests, RunWritten(r)
      PROVE  DInv' /\ RunMoves /\ HandoverMoves
  <2>1. RInv' /\ RunMoves
    BY <1>0, <1>5, RunStep DEF RunWritten, RunPart
  <2>2. SInv'
    BY <1>0, <1>5, <1>d, LeaveInv DEF RunWritten, Answered
  <2>3. Busy'
    <3>1. req[r].pc = "serving" /\ handoverCall[r] = NoDecision
      <4>1. runCall[r] # NoCall
        BY <1>5 DEF RunWritten, WriteUnits, WriteStatus, NoCall
      <4> QED
        BY <1>0, <4>1 DEF Busy, Unbegun
    <3>2. \A o \in Requests \ {r} : runCall'[o] = runCall[o]
      BY <1>5, <1>a DEF RunWritten, WriteUnits, WriteStatus, EndRunCall
    <3>3. /\ \A o \in Requests \ {r} : req'[o] = req[o]
          /\ runCall'[r] = NoCall \/ req'[r].pc = "serving"
      BY <1>5, <1>a, <3>1 DEF RunWritten, Answered, Leave, sessionVars
    <3> QED
      BY <1>5, <3>1, <3>2, <3>3, RestBusy DEF RunWritten, handoverVars
  <2> QED
    BY <1>5, <1>c, <2>1, <2>2, <2>3 DEF RunWritten, DInv
<1>6. ASSUME NEW r \in Requests, HandoverCreated(r)
      PROVE  DInv' /\ RunMoves /\ HandoverMoves
  <2>1. HInv' /\ HandoverMoves
    BY <1>0, <1>6, HandoverStep DEF HandoverCreated, HandoverPart
  <2>2. SInv'
    BY <1>0, <1>6, LeaveInv DEF HandoverCreated, Answered
  <2>3. Busy'
    <3>1. req' = [req EXCEPT ![r] = Waiting] /\ UNCHANGED <<runCall, handoverCall>> /\ Unbegun(r)
      BY <1>6 DEF HandoverCreated, Answered, Leave, CreateHandover, runVars
    <3> QED
      BY <1>a, <3>1, RestBusy DEF Unbegun
  <2> QED
    BY <1>6, <1>b, <2>1, <2>2, <2>3 DEF HandoverCreated, DInv
<1>7. ASSUME NEW r \in Requests, HandoverRead(r)
      PROVE  DInv' /\ RunMoves /\ HandoverMoves
  <2>1. HInv' /\ HandoverMoves
    BY <1>0, <1>7, HandoverStep DEF HandoverRead, HandoverPart
  <2>2. Busy'
    <3>1. /\ \A o \in Requests \ {r} : handoverCall'[o] = handoverCall[o]
          /\ req[r].pc = "serving" /\ runCall[r] = NoCall
      BY <1>7, <1>a DEF HandoverRead, ReadHandover, Serving, Unbegun
    <3>2. UNCHANGED <<req, runCall>>
      BY <1>7 DEF HandoverRead, sessionVars, runVars
    <3> QED
      BY <3>1, <3>2, RestBusy
  <2> QED
    BY <1>7, <1>b, <1>d, <2>1, <2>2 DEF HandoverRead, DInv
<1>8. ASSUME NEW r \in Requests, HandoverWritten(r)
      PROVE  DInv' /\ RunMoves /\ HandoverMoves
  <2>1. HInv' /\ HandoverMoves
    BY <1>0, <1>8, HandoverStep DEF HandoverWritten, HandoverPart
  <2>2. SInv'
    BY <1>0, <1>8, LeaveInv DEF HandoverWritten, Answered
  <2>3. Busy'
    <3>1. /\ handoverCall' = [handoverCall EXCEPT ![r] = NoDecision]
          /\ req' = [req EXCEPT ![r] = Waiting]
          /\ UNCHANGED runCall
          /\ handoverCall[r] # NoDecision
      BY <1>8 DEF HandoverWritten, WriteHandover, Answered, Leave, runVars
    <3>2. \A o \in Requests \ {r} : /\ req'[o] = req[o]
                                    /\ runCall'[o] = runCall[o]
                                    /\ handoverCall'[o] = handoverCall[o]
      BY <1>a, <3>1
    <3>3. handoverCall'[r] = NoDecision
      BY <1>a, <3>1
    <3>4. runCall'[r] = NoCall
      BY <1>0, <3>1 DEF Busy
    <3> QED
      BY <3>2, <3>3, <3>4, RestBusy
  <2> QED
    BY <1>8, <1>b, <2>1, <2>2, <2>3 DEF HandoverWritten, DInv
<1>9. ASSUME NEW r \in Requests, Failed(r)
      PROVE  DInv' /\ RunMoves /\ HandoverMoves
  <2>1. RInv' /\ RunMoves
    BY <1>0, <1>9, <1>b, RunStep DEF Failed, RunPart
  <2>2. HInv' /\ HandoverMoves
    BY <1>0, <1>9, <1>c, HandoverStep DEF Failed, HandoverPart
  <2>3. SInv'
    BY <1>0, <1>9, RequestFailsInv DEF Failed
  <2>4. Busy'
    <3>1. /\ \A o \in Requests \ {r} : runCall'[o] = runCall[o]
          /\ runCall'[r] = NoCall
      BY <1>9, <1>a DEF Failed, RunCallFails, EndRunCall, runVars
    <3>2. /\ \A o \in Requests \ {r} : handoverCall'[o] = handoverCall[o]
          /\ handoverCall'[r] = NoDecision
      BY <1>9, <1>a DEF Failed, HandoverCallFails, handoverVars
    <3>3. \A o \in Requests \ {r} : req'[o] = req[o]
      BY <1>9, <1>a DEF Failed, RequestFails, Leave
    <3> QED
      BY <3>1, <3>2, <3>3, RestBusy
  <2> QED
    BY <2>1, <2>2, <2>3, <2>4 DEF DInv
<1> QED
  BY <1>1, <1>2, <1>3, <1>4, <1>5, <1>6, <1>7, <1>8, <1>9 DEF DeskNext

\* The tables are empty and there is no request.
LEMMA DeskInitInv == DeskInit => DInv /\ RunLife!LifecycleInit /\ HandoverLife!LifecycleInit
<1> SUFFICES ASSUME DeskInit
             PROVE  DInv /\ RunLife!LifecycleInit /\ HandoverLife!LifecycleInit
  OBVIOUS
<1>1. SInv /\ RInv /\ HInv /\ RunLife!LifecycleInit /\ HandoverLife!LifecycleInit
  BY SessionInitInv, RunInitInv, HandoverInitInv DEF DeskInit
<1>2. Busy
  BY DeskAssumption DEF DeskInit, RunInit, HandoverInit, Busy, Unbegun
<1> QED
  BY <1>1, <1>2 DEF DInv

\* The invariant, for any number of tokens, requests, runs and documents.
LEMMA DeskInvariant == DeskSpec => []DInv
<1>1. DInv /\ [DeskNext]_deskVars => DInv'
  BY DeskStep
<1> QED
  BY <1>1, DeskInitInv, PTL DEF DeskSpec

\* Rows and calls stay within their domains, and no request touches the
\* missionrun or the handover service but while it is served.
THEOREM DeskTypeCorrect == DeskSpec => []DeskTypeOK
<1>1. DInv => DeskTypeOK
  BY DEF DInv, SInv, RInv, HInv, Busy, DeskTypeOK
<1> QED
  BY <1>1, DeskInvariant, PTL

\* However many engineers complete a run at once, and whichever of their
\* statements fail, it has the units that the call which completed it reported
\* or, when that reported none, had read.
THEOREM Completers == DeskSpec => []CompletersUnits
<1>1. DInv => CompletersUnits
  BY DEF DInv, RInv
<1> QED
  BY <1>1, DeskInvariant, PTL

\* A session is logged out by one request.
THEOREM Farewell == DeskSpec => []OneFarewell
<1>1. DInv => OneFarewell
  BY DEF DInv, SInv
<1> QED
  BY <1>1, DeskInvariant, PTL

\* No request that comes after its session is over gets past the first check.
THEOREM LateRefused == DeskSpec => []LateIsRefused
<1>1. DInv => LateIsRefused
  BY DEF DInv, SInv, Admitted, LateIsRefused
<1> QED
  BY <1>1, DeskInvariant, PTL

\* The missionrun service implements the lifecycle of a run.
THEOREM RunRefinement == DeskSpec => RunLifecycle
<1>1. DInv /\ [DeskNext]_deskVars => [RunLife!LifecycleNext]_runStatus
  BY DeskStep DEF RunMoves
<1> QED
  BY <1>1, DeskInitInv, DeskInvariant, PTL
  DEF DeskSpec, RunLifecycle, RunLife!LifecycleSpec, runStatus

\* The handover service implements the lifecycle of a document.
THEOREM HandoverRefinement == DeskSpec => HandoverLifecycle
<1>1. DInv /\ [DeskNext]_deskVars => [HandoverLife!LifecycleNext]_docStatus
  BY DeskStep DEF HandoverMoves
<1> QED
  BY <1>1, DeskInitInv, DeskInvariant, PTL
  DEF DeskSpec, HandoverLifecycle, HandoverLife!LifecycleSpec, docStatus
=============================================================================
