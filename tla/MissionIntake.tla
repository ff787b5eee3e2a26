--------------------------- MODULE MissionIntake ---------------------------
(***************************************************************************)
(* Mission intake: the mission service and its tables (mission_requests,   *)
(* idempotency_records, the handover opened with every mission), together  *)
(* with the charging quota it reserves from and the quota endpoints that   *)
(* work on the same rows.                                                  *)
(*                                                                         *)
(* Submit is one request running ten statements, none of them in a         *)
(* transaction with another.  Operators cancel missions and change their   *)
(* priority, and the engine promotes queued ones, all by guarded updates.  *)
(***************************************************************************)
EXTENDS Quota, FiniteSets

CONSTANTS
  Missions,    \* mission uuids: the bound on the number of missions
  Keys,        \* idempotency keys clients use
  NoKey,       \* the empty key
  NoMission,
  Submitters,  \* request goroutines in Submit
  Operators,   \* request goroutines that cancel or change a priority
  Energies,    \* estimated energy units of a mission
  Priorities,  \* 1 is served first
  MaxFaults,   \* bound on crashes and failed statements
  MaxChanges   \* bound: priority changes are asked while a row has fewer versions

ASSUME IntakeAssumption ==
  /\ Energies \subseteq Nat \ {0}
  /\ Priorities \subseteq Nat
  /\ MaxFaults \in Nat
  /\ MaxChanges \in Nat
  /\ NoKey \notin Keys
  /\ NoMission \notin Missions
  /\ IsFiniteSet(Missions) /\ IsFiniteSet(Submitters)

VARIABLES
  mission,   \* mission_requests, by id
  record,    \* idempotency_records, by key
  handover,  \* missions whose handover document was created
  sub,       \* sub[s]: the Submit request s is in
  edit,      \* edit[o]: the row operator o has read and is about to write
  promote,   \* the row the engine has read in AdvanceQueued
  faults,    \* crashes and failed statements so far
  ledger,    \* history: units the quota endpoints hold, per row
  stranded   \* history: units reserved by requests that ended without a mission
             \* and without giving them back, per row

rowVars == <<mission, record, handover>>
history == <<backward, ledger, stranded>>
vars == <<quota, call, mission, record, handover, sub, edit, promote, faults, history>>

-----------------------------------------------------------------------------
(* The state machine of a mission.                                         *)

Transitions ==
  {<<"submitted", "reviewing">>, <<"submitted", "accepted">>, <<"submitted", "rejected">>,
   <<"submitted", "queued">>, <<"submitted", "cancelled">>,
   <<"reviewing", "accepted">>, <<"reviewing", "rejected">>, <<"reviewing", "queued">>,
   <<"accepted", "queued">>, <<"accepted", "scheduled">>, <<"accepted", "cancelled">>,
   <<"queued", "scheduled">>, <<"queued", "cancelled">>,
   <<"scheduled", "processing">>, <<"scheduled", "cancelled">>,
   <<"processing", "completed">>, <<"processing", "cancelled">>}

CanTransition(src, dst) == <<src, dst>> \in Transitions

-----------------------------------------------------------------------------
(* Rows and local records.                                                 *)

\* The statuses the code ever writes.
MissionStatus == {"accepted", "queued", "scheduled", "cancelled"}

MissionRow == [status : MissionStatus, version : Nat, key : Keys \union {NoKey},
               quota : Quotas, energy : Energies, priority : Priorities]

Unused == [status |-> "absent"]

\* answer: the status the stored response names, "none" when there is no row.
Record == [answer : {"none", "accepted", "queued", "rejected"},
           mission : Missions \union {NoMission}, expired : BOOLEAN]

NoRecord == [answer |-> "none", mission |-> NoMission, expired |-> FALSE]

SubPc == {"lookup", "reserve", "write", "reread", "insert", "compensate", "handover", "cache"}

Sub == [pc : SubPc, key : Keys \union {NoKey}, quota : Quotas, energy : Energies,
        priority : Priorities, version : Nat, attempts : Nat,
        mission : Missions \union {NoMission}, answer : {"accepted", "queued", "rejected"}]

Edit == [op : {"cancel", "priority", "advance"}, mission : Missions, version : Nat,
         priority : Priorities]

Exists(m) == mission[m] # Unused

Init ==
  /\ QuotaInit
  /\ mission = [m \in Missions |-> Unused]
  /\ record = [k \in Keys |-> NoRecord]
  /\ handover = {}
  /\ sub = [s \in Submitters |-> Done]
  /\ edit = [o \in Operators |-> Done]
  /\ promote = Done
  /\ faults = 0
  /\ ledger = [q \in Quotas |-> 0]
  /\ stranded = [q \in Quotas |-> 0]

-----------------------------------------------------------------------------
(* Submit.                                                                 *)

Goto(s, pc) == sub' = [sub EXCEPT ![s].pc = pc]
Answer(s) == sub' = [sub EXCEPT ![s] = Done]

\* The response is stored only for a request with a key.
Store(s, answer) ==
  IF sub[s].key = NoKey
  THEN Answer(s)
  ELSE sub' = [sub EXCEPT ![s].pc = "cache", ![s].answer = answer]

\* Bounds: a request arrives while an id is left for its mission, and while
\* its quota row has fewer than MaxVersion versions.
RoomFor(q) ==
  /\ Cardinality({m \in Missions : ~Exists(m)}) > Cardinality({s \in Submitters : sub[s] # Done})
  /\ quota[q].version < MaxVersion

\* A valid request arrives.  The charging kind and the day fix the quota row.
Submit(s, k, q, n, p) ==
  /\ sub[s] = Done
  /\ RoomFor(q)
  /\ sub' = [sub EXCEPT ![s] =
       [pc |-> IF k = NoKey THEN "reserve" ELSE "lookup", key |-> k, quota |-> q,
        energy |-> n, priority |-> p, version |-> 0, attempts |-> 0,
        mission |-> NoMission, answer |-> "rejected"]]
  /\ UNCHANGED <<quota, rowVars>>

\* tryIdempotency: a stored response that has not expired is the answer.
LookUp(s) ==
  /\ sub[s].pc = "lookup"
  /\ LET r == record[sub[s].key] IN
       IF r.answer # "none" /\ ~r.expired THEN Answer(s) ELSE Goto(s, "reserve")
  /\ UNCHANGED <<quota, rowVars>>

\* One turn of reserveQuotaWithRetry: the row is read; too little left rejects
\* the mission, and the rejection is stored.
ReserveLook(s) ==
  /\ sub[s].pc = "reserve"
  /\ quota' = GetOrCreateQuota(sub[s].quota)
  /\ IF Available(sub[s].quota) < sub[s].energy
     THEN Store(s, "rejected")
     ELSE sub' = [sub EXCEPT ![s].pc = "write", ![s].version = quota'[sub[s].quota].version]
  /\ UNCHANGED rowVars

\* Mutated loop: the attempt is not counted.
TryForever(s) == Goto(s, "reserve")

\* Mutated loop: the attempts are counted down.
AttemptsDown(s) ==
  sub' = [sub EXCEPT ![s].pc = "reserve", ![s].attempts = @ - 1]

TryAgain(s) ==
  IF sub[s].attempts + 1 < Tries("reserve")
  THEN sub' = [sub EXCEPT ![s].pc = "reserve", ![s].attempts = @ + 1]
  ELSE Answer(s)

\* Mutated check: the number of affected rows is ignored.
AlwaysReserved(s) == TRUE

Reserved(s) == quota' # quota

ReserveTake(s) ==
  /\ sub[s].pc = "write"
  /\ quota' = ReserveQuota(sub[s].quota, sub[s].energy, sub[s].version)
  /\ IF Reserved(s) THEN Goto(s, "reread") ELSE TryAgain(s)
  /\ UNCHANGED rowVars

\* The reservation is refused because another connection holds the database.
ReserveRefused(s) ==
  /\ sub[s].pc = "write"
  /\ TryAgain(s)
  /\ UNCHANGED <<quota, rowVars>>

\* The row is read again: its utilization decides between accepted and queued,
\* and its version is kept for the compensation.
Reread(s) ==
  /\ sub[s].pc = "reread"
  /\ sub' = [sub EXCEPT ![s].pc = "insert", ![s].version = quota[sub[s].quota].version,
               ![s].answer = IF HighlyUtilized(sub[s].quota) THEN "queued" ELSE "accepted"]
  /\ UNCHANGED <<quota, rowVars>>

\* Mutated index: two missions may carry one key.
NeverTaken(k) == FALSE

Taken(k) == k # NoKey /\ \E m \in Missions : Exists(m) /\ mission[m].key = k

\* INSERT under a fresh id; the unique index refuses a second use of a key.
Insert(s) ==
  /\ sub[s].pc = "insert"
  /\ \/ /\ Taken(sub[s].key)
        /\ Goto(s, "compensate")
        /\ UNCHANGED mission
     \/ /\ ~Taken(sub[s].key)
        /\ \E m \in Missions :
             /\ ~Exists(m)
             /\ mission' = [mission EXCEPT ![m] =
                  [status |-> sub[s].answer, version |-> 1, key |-> sub[s].key,
                   quota |-> sub[s].quota, energy |-> sub[s].energy,
                   priority |-> sub[s].priority]]
             /\ sub' = [sub EXCEPT ![s].pc = "handover", ![s].mission = m]
  /\ UNCHANGED <<quota, record, handover>>

\* The reservation is given back, if the row has had exactly one more version
\* since it was read again.
GivenBack(s) == ReleaseQuota(sub[s].quota, sub[s].energy, sub[s].version + 1)

Compensate(s) ==
  /\ sub[s].pc = "compensate"
  /\ quota' = GivenBack(s)
  /\ Answer(s)
  /\ UNCHANGED rowVars

OpenHandover(s) ==
  /\ sub[s].pc = "handover"
  /\ handover' = handover \union {sub[s].mission}
  /\ Store(s, sub[s].answer)
  /\ UNCHANGED <<quota, mission, record>>

\* The first stored response of a key stays, expired or not.
Cache(s) ==
  /\ sub[s].pc = "cache"
  /\ record' = IF record[sub[s].key].answer = "none"
               THEN [record EXCEPT ![sub[s].key] =
                       [answer |-> sub[s].answer, mission |-> sub[s].mission, expired |-> FALSE]]
               ELSE record
  /\ Answer(s)
  /\ UNCHANGED <<quota, mission, handover>>

\* Twenty-four hours after it was stored a response no longer counts.
Expire(k) ==
  /\ record[k].answer # "none" /\ ~record[k].expired
  /\ record' = [record EXCEPT ![k].expired = TRUE]
  /\ UNCHANGED <<quota, mission, handover, sub>>

-----------------------------------------------------------------------------
(* Operators and the engine: read a row, then write it if it is unchanged. *)

\* Mutated WHERE clause: WHERE id = ?.
AnyMissionVersion(m, v) == Exists(m)

MissionWhere(m, v) == Exists(m) /\ mission[m].version = v

UpdateMissionStatus(m, status, v) ==
  IF MissionWhere(m, v)
  THEN [mission EXCEPT ![m].status = status, ![m].version = @ + 1]
  ELSE mission

UpdatePriority(m, p, v) ==
  IF MissionWhere(m, v)
  THEN [mission EXCEPT ![m].priority = p, ![m].version = @ + 1]
  ELSE mission

Copy(op, m, p) == [op |-> op, mission |-> m, version |-> mission[m].version, priority |-> p]

CancelRead(o, m) ==
  /\ edit[o] = Done
  /\ Exists(m) /\ CanTransition(mission[m].status, "cancelled")
  /\ edit' = [edit EXCEPT ![o] = Copy("cancel", m, mission[m].priority)]
  /\ UNCHANGED rowVars

PriorityRead(o, m, p) ==
  /\ edit[o] = Done
  /\ Exists(m) /\ mission[m].version < MaxChanges
  /\ edit' = [edit EXCEPT ![o] = Copy("priority", m, p)]
  /\ UNCHANGED rowVars

EditWrite(o) ==
  /\ edit[o] # Done
  /\ LET e == edit[o] IN
       \/ e.op = "cancel" /\ mission' = UpdateMissionStatus(e.mission, "cancelled", e.version)
       \/ e.op = "priority" /\ mission' = UpdatePriority(e.mission, e.priority, e.version)
  /\ edit' = [edit EXCEPT ![o] = Done]
  /\ UNCHANGED <<record, handover>>

\* Mutated listing: status = 'accepted'.
AcceptedMissions == {m \in Missions : Exists(m) /\ mission[m].status = "accepted"}

QueuedMissions == {m \in Missions : Exists(m) /\ mission[m].status = "queued"}

\* AdvanceQueued takes the first queued mission by priority; creation time, in
\* whole seconds, orders missions of equal priority (here: any of them).
AdvanceRead ==
  /\ promote = Done
  /\ \E m \in QueuedMissions :
       /\ \A x \in QueuedMissions : mission[m].priority <= mission[x].priority
       /\ CanTransition(mission[m].status, "scheduled")
       /\ promote' = Copy("advance", m, mission[m].priority)
  /\ UNCHANGED rowVars

AdvanceWrite ==
  /\ promote # Done
  /\ mission' = UpdateMissionStatus(promote.mission, "scheduled", promote.version)
  /\ promote' = Done
  /\ UNCHANGED <<record, handover>>

-----------------------------------------------------------------------------
(* History: requests S end without giving back what they had reserved.     *)

\* The units that records with these ids ask for, as pairs of an id and a number.
UnitsOf(records, ids) == UNION {{i} \X (1 .. records[i].energy) : i \in ids}

\* Requests that have reserved and may still make a mission of it.
Holding(s) == sub[s] # Done /\ sub[s].pc \in {"reread", "insert", "compensate"}

HoldersOf(q) == {s \in Submitters : Holding(s) /\ sub[s].quota = q}

Strand(S) ==
  stranded' = [q \in Quotas |->
                 stranded[q] + Cardinality(UnitsOf(sub, S \intersect HoldersOf(q)))]

-----------------------------------------------------------------------------
(* Failed statements and crashes.                                          *)

Fault == faults < MaxFaults /\ faults' = faults + 1

\* Mutated handling: a failed INSERT is logged and the response stored.
InsertErrorIgnored(s) ==
  IF sub[s].pc \in {"insert", "handover"} THEN Store(s, sub[s].answer) ELSE Answer(s)

\* What a failed statement leads to: a failed INSERT to the compensation, a
\* failed handover to the stored response, any other to the end of the call.
AfterFailure(s) ==
  IF sub[s].pc = "insert" THEN Goto(s, "compensate")
  ELSE IF sub[s].pc = "handover" THEN Store(s, sub[s].answer) ELSE Answer(s)

SubmitFails(s) ==
  /\ sub[s] # Done
  /\ Fault
  /\ AfterFailure(s)
  /\ Strand(IF sub[s].pc = "insert" THEN {} ELSE {s})
  /\ UNCHANGED <<quota, call, rowVars, edit, promote, backward, ledger>>

\* The scheduler process dies with every request and the engine, and restarts.
Crash ==
  /\ Fault
  /\ call' = [c \in Callers |-> Done]
  /\ sub' = [s \in Submitters |-> Done]
  /\ edit' = [o \in Operators |-> Done]
  /\ promote' = Done
  /\ Strand(Submitters)
  /\ UNCHANGED <<quota, rowVars, backward, ledger>>

-----------------------------------------------------------------------------

Proceed(s) ==
  \/ LookUp(s)
  \/ ReserveLook(s)
  \/ ReserveTake(s)
  \/ ReserveRefused(s)
  \/ Reread(s)
  \/ Insert(s)
  \/ Compensate(s)
  \/ OpenHandover(s)
  \/ Cache(s)

SubmitStep(s) ==
  /\ \/ \E k \in Keys \union {NoKey}, q \in Quotas, n \in Energies, p \in Priorities :
          Submit(s, k, q, n, p)
     \/ Proceed(s)
  /\ Strand(IF sub[s].pc = "compensate" /\ quota' = quota THEN {s} ELSE {})
  /\ UNCHANGED <<call, edit, promote, faults, backward, ledger>>

EditStep(o) ==
  /\ \/ \E m \in Missions : CancelRead(o, m)
     \/ \E m \in Missions, p \in Priorities : PriorityRead(o, m, p)
     \/ EditWrite(o)
  /\ UNCHANGED <<quota, call, sub, promote, faults, history>>

AdvanceStep ==
  /\ AdvanceRead \/ AdvanceWrite
  /\ UNCHANGED <<quota, call, sub, edit, faults, history>>

ExpireStep ==
  /\ \E k \in Keys : Expire(k)
  /\ UNCHANGED <<call, edit, promote, faults, history>>

\* A step of a quota endpoint; the ledger notes the units it moved.
EndpointStep ==
  /\ QuotaNext
  /\ ledger' = [q \in Quotas |-> ledger[q] + Held(q)' - Held(q)]
  /\ UNCHANGED <<rowVars, sub, edit, promote, faults, stranded>>

Next ==
  \/ \E s \in Submitters : SubmitStep(s)
  \/ \E o \in Operators : EditStep(o)
  \/ AdvanceStep
  \/ ExpireStep
  \/ EndpointStep
  \/ \E s \in Submitters : SubmitFails(s)
  \/ Crash

Spec == Init /\ [][Next]_vars

\* A request that can run runs, and the engine's ticker keeps firing.
FairSpec ==
  /\ Spec
  /\ \A s \in Submitters : WF_vars(SubmitStep(s) /\ Proceed(s))
  /\ \A o \in Operators :
       WF_vars(EditWrite(o) /\ UNCHANGED <<quota, call, sub, promote, faults, history>>)
  /\ WF_vars(AdvanceStep)
  /\ \A c \in Callers : WF_vars(EndpointStep /\ Serve(c))

-----------------------------------------------------------------------------
(* Properties.                                                             *)

\* Rows, local copies and history stay within their domains.
TypeOK ==
  /\ QuotaTypeOK
  /\ mission \in [Missions -> MissionRow \union {Unused}]
  /\ record \in [Keys -> Record]
  /\ handover \subseteq Missions
  /\ sub \in [Submitters -> Sub \union {Done}]
  /\ edit \in [Operators -> Edit \union {Done}]
  /\ promote \in Edit \union {Done}
  /\ faults \in 0 .. MaxFaults
  /\ ledger \in [Quotas -> Int]
  /\ stranded \in [Quotas -> Nat]

MissionsOf(q) == {m \in Missions : Exists(m) /\ mission[m].quota = q}

\* Units spoken for: those of every mission and those of every such request.
SpokenFor(q) ==
  Cardinality(UnitsOf(mission, MissionsOf(q))) + Cardinality(UnitsOf(sub, HoldersOf(q)))

\* The energy of a day is accounted for to the unit: what its row holds are the
\* units of every mission, those of requests that may still make one, what the
\* quota endpoints moved, and what was left there by a request that ended
\* between its reservation and its mission: its statement or its process
\* failed, or its compensation did not match.  So no mission is taken in
\* without its energy, and no reservation is made, kept or given back twice,
\* whatever lost races, retries, refused inserts and crashes happened.
EnergyAccounted ==
  \A q \in Quotas : Held(q) = SpokenFor(q) + ledger[q] + stranded[q]

\* A stored acceptance names a mission that exists under its key, and a key has
\* one mission, even when statements failed or the process died in the middle
\* of Submit, or the client asked again after its answer was lost or expired.
AnswersTruthful ==
  /\ \A k \in Keys :
       record[k].answer \in {"accepted", "queued"} =>
         /\ record[k].mission \in Missions
         /\ Exists(record[k].mission)
         /\ mission[record[k].mission].key = k
  /\ \A m, x \in Missions :
       Exists(m) /\ Exists(x) /\ m # x =>
         mission[m].key # mission[x].key \/ mission[m].key = NoKey

StatusChangeIsEdge ==
  \A m \in Missions :
    /\ Exists(m)
    /\ mission'[m] # mission[m]
    => /\ mission'[m].version = mission[m].version + 1
       /\ \/ mission'[m].status = mission[m].status
          \/ CanTransition(mission[m].status, mission'[m].status)

\* Cancelling, changing the priority and promoting race on copies; still every
\* status change is an edge of the state machine, so a cancelled mission is
\* never promoted and no write is lost without its writer being told.
MissionFollowsMachine == [][StatusChangeIsEdge]_vars

\* service.go: "Submit creates or returns an existing mission, enforcing
\* idempotency".  A key whose stored answer is a rejection has no mission.
RejectedHasNoMission ==
  \A k \in Keys : record[k].answer = "rejected" => ~Taken(k)

\* A Submit request ends, under any contention on the quota row.
SubmitEnds == \A s \in Submitters : sub[s] # Done ~> sub[s] = Done

\* A queued mission is promoted or cancelled, although operators may change
\* its priority under the engine's hands.
QueuedLeaves ==
  \A m \in Missions :
    (Exists(m) /\ mission[m].status = "queued") ~> mission[m].status \in {"scheduled", "cancelled"}
=============================================================================
