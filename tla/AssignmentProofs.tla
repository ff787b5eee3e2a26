-------------------------- MODULE AssignmentProofs --------------------------
(* Proofs about Assignment, for every value of its constants. *)
EXTENDS Assignment, TLAPS

(* Each action splits Next once, here; the proofs below name the actions. *)

\* A step of the system is a step of one of the operations, one disjunct each.
LEMMA NextCases ==
  ASSUME Next
  PROVE  \/ \E t \in Tasks : Create(t)
         \/ \E h \in Handlers, t \in Tasks : AssignRead(h, t)
         \/ \E h \in Handlers, t \in Tasks, e \in Executors : HandlerClaim(h, t, e)
         \/ \E h \in Handlers, t \in Tasks, e \in Executors : ReportRead(h, t, e)
         \/ \E a \in Actors : AssignWrite(a)
         \/ \E a \in Actors : ClaimWrite(a)
         \/ \E a \in Actors : CreateLease(a)
         \/ \E a \in Actors : UndoClaim(a)
         \/ \E a \in Actors : ReportWrite(a)
         \/ \E a \in Actors : ReleaseLease(a)
         \/ \E a \in Actors : InsertExecution(a)
         \/ \E w \in Workers : WorkerPoll(w)
         \/ \E w \in Workers : WorkerNext(w)
         \/ \E w \in Workers : WorkerReport(w)
         \/ EngineScan
         \/ EnginePreempt
         \/ EngineRevoke
         \/ EngineReassignRead
         \/ EngineReassignWrite
         \/ Tick
         \/ \E a \in Actors : StatementFails(a)
         \/ EngineStatementFails
         \/ SchedulerCrash
         \/ \E w \in Workers : WorkerCrash(w)
BY DEF Next, Request, Continue, WorkerLoop, EngineStep, Failure

\* The empty tables and idle processes are well typed.
LEMMA TypeInit == Init => TypeOK
<1> SUFFICES ASSUME Init PROVE TypeOK
  OBVIOUS
<1> USE ConstantsAssumption DEF Init
<1>1. task \in [Tasks -> Row]
  BY DEF Row, NoRow, Left, NoDeadline
<1>2. lease \in [Leases -> LeaseRow]
  BY DEF LeaseRow
<1>3. execution \in [Tasks -> Seq(Executors)]
  OBVIOUS
<1>4. job \in [Actors -> Job]
  BY DEF Job, Idle, Pc, Left, NoDeadline
<1>5. engine \in Engine
  BY DEF Engine, EngineIdle, Snapshot, NoSnapshot
<1> QED
  BY <1>1, <1>2, <1>3, <1>4, <1>5 DEF TypeOK

(* Each helper that builds a new local record keeps the type of job. *)

\* Ending a call leaves well-typed calls.
LEMMA ReturnType ==
  ASSUME TypeOK, NEW a \in Actors, Return(a)
  PROVE  job' \in [Actors -> Job]
BY ConstantsAssumption DEF TypeOK, Return, Idle, Job, Pc, Left, NoDeadline

\* Starting a call on a row leaves well-typed calls.
LEMMA BeginType ==
  ASSUME TypeOK, NEW a \in Actors, NEW t \in Tasks,
         NEW e \in Executors \union {NoExecutor},
         NEW pc \in Pc, Begin(a, pc, t, e)
  PROVE  job' \in [Actors -> Job]
BY ConstantsAssumption DEF TypeOK, Begin, Job, Row, Left, NoDeadline

\* Going on to the next statement leaves well-typed calls.
LEMMA ProceedType ==
  ASSUME TypeOK, NEW a \in Actors, NEW pc \in Pc, Proceed(a, pc)
  PROVE  job' \in [Actors -> Job]
BY DEF TypeOK, Proceed, Job

\* The fields of a call that later statements use are well typed.
LEMMA ReadType ==
  ASSUME TypeOK, NEW a \in Actors
  PROVE  /\ job[a] \in Job
         /\ job[a].left \in Left
         /\ job[a].version \in Nat
BY DEF TypeOK, Job

\* UpdateAssignmentStatus leaves a well-typed table, matching or not.
LEMMA UpdateStatusType ==
  ASSUME TypeOK, NEW t \in Tasks, NEW v, NEW s \in Status,
         task' = UpdateAssignmentStatus(t, s, v)
  PROVE  task' \in [Tasks -> Row]
BY DEF TypeOK, UpdateAssignmentStatus, Row

\* ClearAssignmentClaim leaves a well-typed table, matching or not.
LEMMA ClearClaimType ==
  ASSUME TypeOK, NEW t \in Tasks, NEW v, task' = ClearAssignmentClaim(t, v)
  PROVE  task' \in [Tasks -> Row]
BY ConstantsAssumption DEF TypeOK, ClearAssignmentClaim, Row, Status, Left, NoDeadline

\* Releasing or revoking a lease leaves a well-typed table.
LEMMA EndLeaseType ==
  ASSUME TypeOK, NEW l, NEW s \in {"released", "revoked"},
         lease' = EndLease(l, s)
  PROVE  lease' \in [Leases -> LeaseRow]
BY DEF TypeOK, EndLease, LeaseRow

-----------------------------------------------------------------------------

(* A step that writes one task row, which was not completed, and raises its *)
(* version; a lease is issued with it or the leases stay as they are.      *)

RowStep(t) ==
  /\ task' \in [Tasks -> Row]
  /\ \A u \in Tasks \ {t} : task'[u] = task[u]
  /\ task[t].status # "completed"
  /\ task'[t].version = task[t].version + 1
  /\ \/ lease' = lease /\ task'[t].lease \in {task[t].lease, NoLease}
     \/ \E l \in Leases :
          /\ lease[l].status = "unissued"
          /\ lease' = [lease EXCEPT ![l] = [status |-> "issued", task |-> t]]
          /\ task'[t].lease = l
  /\ execution' = execution

\* Writing a task row does not touch a generated lease, nor point at it anew.
LEMMA RowStepLeases ==
  ASSUME TypeOK, NEW t \in Tasks, RowStep(t), NEW l \in Leases,
         lease[l].status # "unissued"
  PROVE  lease'[l] = lease[l] /\ (task[t].lease # l => task'[t].lease # l)
BY ConstantsAssumption DEF TypeOK, RowStep

\* Writing a row that was not completed keeps the two tables in agreement.
LEMMA RowStepLeaseOutcome ==
  ASSUME IInv, NEW t \in Tasks, RowStep(t)
  PROVE  LeaseOutcome'
<1> SUFFICES ASSUME NEW l \in Leases
             PROVE  /\ lease'[l].status = "released" =>
                         /\ lease'[l].task \in Tasks
                         /\ task'[lease'[l].task].status = "completed"
                         /\ task'[lease'[l].task].lease = l
                    /\ lease'[l].status = "revoked" => \A u \in Tasks : task'[u].lease # l
  BY DEF LeaseOutcome
<1>1. CASE lease[l].status = "unissued"
  <2>1. lease'[l] = lease[l] \/ lease'[l].status = "issued"
    BY DEF IInv, TypeOK, RowStep
  <2> QED
    BY <1>1, <2>1
<1>2. CASE lease[l].status # "unissued"
  <2>1. lease'[l] = lease[l] /\ (task[t].lease # l => task'[t].lease # l)
    BY <1>2, RowStepLeases DEF IInv
  <2>2. \A u \in Tasks \ {t} : task'[u] = task[u]
    BY DEF RowStep
  <2> QED
    BY <2>1, <2>2 DEF IInv, LeaseOutcome, RowStep
<1> QED
  BY <1>1, <1>2

\* Writing a row keeps what the calls of the other actors rely on.
LEMMA RowStepReads ==
  ASSUME IInv, NEW t \in Tasks, RowStep(t), NEW a \in Actors, job'[a] = job[a]
  PROVE  Reads(a)'
<1>1. Reads(a) /\ job[a] \in Job
  BY DEF IInv, ReadsInv, TypeOK
<1>2. job[a].pc \in {"createLease", "undo"} => lease'[job[a].lease] = lease[job[a].lease]
  BY <1>1, RowStepLeases DEF IInv, Reads
<1>3. CASE job[a].task = t
  BY <1>1, <1>2, <1>3 DEF Reads, RowStep, IInv, TypeOK, Row, Job
<1>4. CASE job[a].task # t /\ job[a].task \in Tasks
  BY <1>1, <1>2, <1>4 DEF Reads, RowStep
<1>5. CASE job[a].task \notin Tasks
  BY <1>1, <1>5 DEF Reads, Job, Pc
<1> QED
  BY <1>3, <1>4, <1>5

\* Writing a row keeps what the engine relies on for the rows it listed.
LEMMA RowStepListed ==
  ASSUME IInv, NEW t \in Tasks, RowStep(t), NEW s \in Snapshot, Listed(s)
  PROVE  Listed(s)'
<1>1. lease'[s.lease] = lease[s.lease]
  BY RowStepLeases DEF IInv, Listed
<1>2. CASE s.task = t
  BY <1>1, <1>2 DEF Listed, RowStep, IInv, TypeOK, Row, Snapshot
<1>3. CASE s.task # t
  BY <1>1, <1>3 DEF Listed, Expired, RowStep
<1> QED
  BY <1>2, <1>3

\* Writing a row does not name a lease whose claim was cleared.
LEMMA RowStepCleared ==
  ASSUME IInv, NEW t \in Tasks, RowStep(t), NEW s \in Snapshot, Cleared(s)
  PROVE  Cleared(s)'
<1>1. lease'[s.lease] = lease[s.lease] /\ task'[t].lease # s.lease
  BY RowStepLeases DEF IInv, Cleared
<1> QED
  BY <1>1 DEF Cleared, RowStep

\* Writing a row keeps what a reassignment relies on.
LEMMA RowStepWaiting ==
  ASSUME IInv, NEW t \in Tasks, RowStep(t), NEW s \in Snapshot, Waiting(s)
  PROVE  Waiting(s)'
<1>1. CASE s.task = t
  BY <1>1 DEF Waiting, RowStep, IInv, TypeOK, Row, Snapshot
<1>2. CASE s.task # t
  BY <1>2 DEF Waiting, RowStep
<1> QED
  BY <1>1, <1>2

\* Writing a row keeps what the engine in mid-tick relies on.
LEMMA RowStepEngine ==
  ASSUME IInv, NEW t \in Tasks, RowStep(t), engine' = engine
  PROVE  EngineInv'
<1>1. engine.todo \subseteq Snapshot /\ engine.current \in Snapshot
  BY DEF IInv, TypeOK, Engine
<1>2. EngineInv
  BY DEF IInv
<1> QED
  BY <1>1, <1>2, RowStepListed, RowStepCleared, RowStepWaiting DEF EngineInv

\* Writing a row that was not completed disturbs no recorded outcome.
LEMMA RowStepOutcome ==
  ASSUME IInv, NEW t \in Tasks, RowStep(t)
  PROVE  OneOutcome'
BY DEF IInv, RowStep, OneOutcome

\* The rows other than t keep what RowInv says of them.
RowGood(u) ==
  /\ task[u].status = "absent" => task[u].version = 0
  /\ task[u].status \in ClaimStatus \union {"completed"} =>
       /\ task[u].claimedBy \in Executors
       /\ task[u].lease \in Leases
       /\ lease[task[u].lease].task = u
       /\ lease[task[u].lease].status # "unissued"
  /\ task[u].status \notin ClaimStatus \union {"completed"} =>
       task[u].claimedBy = NoExecutor /\ task[u].lease = NoLease

\* Only the written row needs looking at for the claim columns.
LEMMA RowStepRows ==
  ASSUME IInv, NEW t \in Tasks, RowStep(t), RowGood(t)'
  PROVE  RowInv'
<1> SUFFICES ASSUME NEW u \in Tasks, u # t PROVE RowGood(u)'
  BY DEF RowInv, RowGood
<1>1. RowGood(u) /\ task'[u] = task[u]
  BY DEF IInv, RowInv, RowGood, RowStep
<1>2. task[u].status \in ClaimStatus \union {"completed"} =>
        lease'[task[u].lease] = lease[task[u].lease]
  BY <1>1, RowStepLeases DEF IInv, RowGood
<1> QED
  BY <1>1, <1>2 DEF RowGood

\* Creating an assignment keeps the invariant.
LEMMA CreateInv ==
  ASSUME IInv, NEW t \in Tasks, Create(t)
  PROVE  IInv'
<1>1. /\ task' \in [Tasks -> Row]
      /\ task'[t].status = "created" /\ task'[t].version = 1
      /\ task'[t].claimedBy = task[t].claimedBy
      /\ task'[t].lease = task[t].lease
      /\ \A u \in Tasks \ {t} : task'[u] = task[u]
  BY DEF IInv, Create, TypeOK, Row, Status
<1>2. task[t].status = "absent" /\ UNCHANGED <<lease, execution, job, batch, engine, faults>>
  BY DEF Create
<1>3. task[t].version = 0 /\ task[t].lease = NoLease /\ task[t].claimedBy = NoExecutor
  BY <1>2 DEF IInv, RowInv, ClaimStatus
<1>4. RowStep(t) /\ RowGood(t)'
  BY <1>1, <1>2, <1>3 DEF RowStep, RowGood, ClaimStatus
<1>5. TypeOK' /\ CallsDiffer'
  BY <1>1, <1>2 DEF IInv, TypeOK, CallsDiffer, Claiming, Reporting
<1>6. ReadsInv'
  BY <1>2, <1>4, RowStepReads DEF ReadsInv
<1> QED
  BY <1>2, <1>4, <1>5, <1>6, RowStepRows, RowStepLeaseOutcome, RowStepEngine,
     RowStepOutcome DEF IInv

(* A step that writes only the local state of actor a (and a worker's batch). *)

\* A step of one call that writes no table keeps the invariant, if what the
\* call relies on afterwards is true.
LEMMA CallStep ==
  ASSUME IInv, NEW a \in Actors,
         job' \in [Actors -> Job], \A b \in Actors \ {a} : job'[b] = job[b],
         batch' \in [Workers -> SUBSET Tasks], faults' \in 0 .. MaxFaults,
         UNCHANGED <<task, lease, execution, engine>>, Reads(a)',
         Claiming(a)' => Claiming(a) /\ job'[a].lease = job[a].lease,
         Reporting(a)' => Reporting(a) /\ job'[a].task = job[a].task
  PROVE  IInv'
<1>1. TypeOK'
  BY DEF IInv, TypeOK
<1>2. RowInv' /\ LeaseOutcome' /\ OneOutcome'
  BY DEF IInv, RowInv, LeaseOutcome, OneOutcome
<1>3. ReadsInv'
  BY DEF IInv, ReadsInv, Reads
<1>4. CallsDiffer'
  BY DEF IInv, CallsDiffer, Claiming, Reporting
<1>5. EngineInv'
  BY DEF IInv, EngineInv, Listed, Cleared, Waiting, Expired
<1> QED
  BY <1>1, <1>2, <1>3, <1>4, <1>5 DEF IInv

\* Assign's read keeps the invariant.
LEMMA AssignReadInv ==
  ASSUME IInv, NEW h \in Handlers, NEW t \in Tasks, AssignRead(h, t)
  PROVE  IInv'
<1>1. job' \in [Actors -> Job] /\ job'[h].pc = "assign"
  BY BeginType DEF IInv, AssignRead, Actors, Pc, Begin, TypeOK
<1>2. Reads(h)'
  BY ConstantsAssumption
     DEF IInv, TypeOK, AssignRead, Begin, Reads, Row, CanTransition, Transitions, Actors
<1> QED
  BY <1>1, <1>2, CallStep DEF IInv, TypeOK, AssignRead, Begin, Actors, Claiming, Reporting

\* An HTTP claim's read keeps the invariant.
LEMMA HandlerClaimInv ==
  ASSUME IInv, NEW h \in Handlers, NEW t \in Tasks, NEW e \in Executors,
         HandlerClaim(h, t, e)
  PROVE  IInv'
<1>1. job' \in [Actors -> Job] /\ job'[h].pc = "claim"
  BY BeginType DEF IInv, HandlerClaim, ClaimRead, Actors, Pc, Begin, TypeOK
<1>2. Reads(h)'
  BY DEF IInv, TypeOK, HandlerClaim, ClaimRead, Begin, Reads, Row, Actors
<1> QED
  BY <1>1, <1>2, CallStep DEF IInv, TypeOK, HandlerClaim, ClaimRead, Begin, Actors, Claiming, Reporting

\* An HTTP report's read keeps the invariant.
LEMMA ReportReadInv ==
  ASSUME IInv, NEW h \in Handlers, NEW t \in Tasks, NEW e \in Executors,
         ReportRead(h, t, e)
  PROVE  IInv'
<1>1. job' \in [Actors -> Job] /\ job'[h].pc = "report"
  BY BeginType DEF IInv, ReportRead, Actors, Pc, Begin, TypeOK
<1>2. Reads(h)'
  BY DEF IInv, TypeOK, ReportRead, MayReport, Begin, Reads, Row, Actors,
         CanTransition, Transitions, ClaimStatus
<1> QED
  BY <1>1, <1>2, CallStep DEF IInv, TypeOK, ReportRead, Begin, Actors, Claiming, Reporting

(* A step of actor a that writes the row of task t. *)

\* A step of one call that writes a task row keeps the invariant, if the row
\* and what the call relies on afterwards are right.
LEMMA CallRowStep ==
  ASSUME IInv, NEW a \in Actors, NEW t \in Tasks, RowStep(t), RowGood(t)',
         lease' \in [Leases -> LeaseRow],
         job' \in [Actors -> Job], \A b \in Actors \ {a} : job'[b] = job[b],
         UNCHANGED <<batch, engine, faults>>, Reads(a)', CallsDiffer'
  PROVE  IInv'
<1>1. TypeOK'
  BY DEF IInv, TypeOK, RowStep
<1>2. ReadsInv'
  BY RowStepReads DEF ReadsInv
<1> QED
  BY <1>1, <1>2, RowStepRows, RowStepLeaseOutcome, RowStepEngine, RowStepOutcome DEF IInv

\* A call that ends relies on nothing and competes with nobody.
LEMMA Returned ==
  ASSUME IInv, NEW a \in Actors, Return(a)
  PROVE  /\ job' \in [Actors -> Job]
         /\ job'[a] = Idle
         /\ \A b \in Actors \ {a} : job'[b] = job[b]
         /\ Reads(a)'
         /\ CallsDiffer'
<1>1. job' \in [Actors -> Job] /\ job'[a] = Idle /\ \A b \in Actors \ {a} : job'[b] = job[b]
  BY ReturnType DEF IInv, Return, TypeOK
<1>2. Reads(a)' /\ CallsDiffer'
  BY <1>1 DEF IInv, Reads, CallsDiffer, Claiming, Reporting, Idle
<1> QED
  BY <1>1, <1>2

\* Ending a call without writing a table keeps the invariant.
LEMMA ReturnInv ==
  ASSUME IInv, NEW a \in Actors, Return(a), batch' \in [Workers -> SUBSET Tasks],
         faults' \in 0 .. MaxFaults, UNCHANGED <<task, lease, execution, engine>>
  PROVE  IInv'
BY Returned, CallStep DEF Idle, Claiming, Reporting

\* What UpdateAssignmentStatus and ClearAssignmentClaim write when they match.
LEMMA StatusWritten ==
  ASSUME TypeOK, NEW t \in Tasks, NEW v, NEW s \in Status, StatusWhere(t, v),
         task' = UpdateAssignmentStatus(t, s, v)
  PROVE  /\ task' \in [Tasks -> Row]
         /\ task'[t].status = s /\ task'[t].version = task[t].version + 1
         /\ task'[t].claimedBy = task[t].claimedBy /\ task'[t].lease = task[t].lease
         /\ \A u \in Tasks \ {t} : task'[u] = task[u]
<1>1. task' \in [Tasks -> Row]
  BY UpdateStatusType
<1>2. task' = [task EXCEPT ![t].status = s, ![t].version = @ + 1]
  BY DEF UpdateAssignmentStatus
<1> QED
  BY <1>1, <1>2 DEF TypeOK, Row

\* What ClearAssignmentClaim writes when it matches.
LEMMA ClaimCleared ==
  ASSUME TypeOK, NEW t \in Tasks, NEW v, ClearWhere(t, v),
         task' = ClearAssignmentClaim(t, v)
  PROVE  /\ task' \in [Tasks -> Row]
         /\ task'[t].status = "preempted" /\ task'[t].version = task[t].version + 1
         /\ task'[t].claimedBy = NoExecutor /\ task'[t].lease = NoLease
         /\ \A u \in Tasks \ {t} : task'[u] = task[u]
<1>1. task' \in [Tasks -> Row]
  BY ClearClaimType
<1> QED
  BY <1>1 DEF TypeOK, ClearAssignmentClaim

\* Assign's guarded update keeps the invariant.
LEMMA AssignWriteInv ==
  ASSUME IInv, NEW a \in Actors, AssignWrite(a)
  PROVE  IInv'
<1>1. Reads(a) /\ job[a].pc = "assign" /\ Return(a)
  BY DEF IInv, ReadsInv, AssignWrite
<1>2. PICK t \in Tasks : t = job[a].task
  BY <1>1 DEF Reads
<1>3. CASE StatusWhere(t, job[a].version)
  <2>1. /\ task' \in [Tasks -> Row]
        /\ task'[t].status = "assigned" /\ task'[t].version = task[t].version + 1
        /\ task'[t].claimedBy = task[t].claimedBy /\ task'[t].lease = task[t].lease
        /\ \A u \in Tasks \ {t} : task'[u] = task[u]
    BY <1>2, <1>3, StatusWritten DEF AssignWrite, IInv, Status
  <2>2. task[t].status \in {"created", "preempted"} /\ RowGood(t) /\ task[t].version \in Nat
    BY <1>1, <1>2, <1>3 DEF Reads, StatusWhere, IInv, RowInv, RowGood, TypeOK, Row
  <2>3. RowStep(t) /\ RowGood(t)'
    BY <2>1, <2>2 DEF AssignWrite, RowStep, RowGood, ClaimStatus
  <2> QED
    BY <1>1, <2>3, Returned, CallRowStep DEF AssignWrite, IInv, TypeOK
<1>4. CASE ~StatusWhere(t, job[a].version)
  BY <1>1, <1>2, <1>4, ReturnInv DEF AssignWrite, UpdateAssignmentStatus, IInv, TypeOK
<1> QED
  BY <1>3, <1>4

\* Clearing one's own claim after a failed lease insert keeps the invariant.
LEMMA UndoClaimInv ==
  ASSUME IInv, NEW a \in Actors, UndoClaim(a)
  PROVE  IInv'
<1>1. Reads(a) /\ job[a].pc = "undo" /\ Return(a)
  BY DEF IInv, ReadsInv, UndoClaim
<1>2. PICK t \in Tasks : t = job[a].task
  BY <1>1 DEF Reads
<1>3. CASE ClearWhere(t, job[a].version + 1)
  <2>1. /\ task' \in [Tasks -> Row]
        /\ task'[t].status = "preempted" /\ task'[t].version = task[t].version + 1
        /\ task'[t].claimedBy = NoExecutor /\ task'[t].lease = NoLease
        /\ \A u \in Tasks \ {t} : task'[u] = task[u]
    BY <1>2, <1>3, ClaimCleared DEF UndoClaim, IInv
  <2>2. task[t].status = "claimed"
    BY <1>1, <1>2, <1>3 DEF Reads, ClearWhere
  <2>3. RowStep(t) /\ RowGood(t)'
    BY <2>1, <2>2 DEF UndoClaim, RowStep, RowGood, ClaimStatus
  <2> QED
    BY <1>1, <2>3, Returned, CallRowStep DEF UndoClaim, IInv, TypeOK
<1>4. CASE ~ClearWhere(t, job[a].version + 1)
  BY <1>1, <1>2, <1>4, ReturnInv DEF UndoClaim, ClearAssignmentClaim, IInv, TypeOK
<1> QED
  BY <1>3, <1>4

\* The lease of a claim that has not inserted it is issued, no more.
LEMMA ClaimingLease ==
  ASSUME IInv, NEW b \in Actors, Claiming(b)
  PROVE  job[b].lease \in Leases /\ lease[job[b].lease].status = "issued"
<1>1. Reads(b)
  BY DEF IInv, ReadsInv
<1>2. job[b].lease \in Leases /\ lease[job[b].lease] = [status |-> "issued", task |-> job[b].task]
  BY <1>1 DEF Reads, Claiming
<1> QED
  BY <1>2

\* Report's guarded update keeps the invariant: the row it completes is still
\* the reporter's.
LEMMA ReportWriteInv ==
  ASSUME IInv, NEW a \in Actors, ReportWrite(a)
  PROVE  IInv'
<1>1. Reads(a) /\ job[a].pc = "report"
  BY DEF IInv, ReadsInv, ReportWrite
<1>2. PICK t \in Tasks : t = job[a].task
  BY <1>1 DEF Reads
<1>3. CASE StatusWhere(t, job[a].version)
  <2>1. /\ task' \in [Tasks -> Row]
        /\ task'[t].status = "completed" /\ task'[t].version = task[t].version + 1
        /\ task'[t].claimedBy = task[t].claimedBy /\ task'[t].lease = task[t].lease
        /\ \A u \in Tasks \ {t} : task'[u] = task[u]
    BY <1>2, <1>3, StatusWritten DEF ReportWrite, IInv, Status
  <2>2. /\ task[t].status \in ClaimStatus /\ RowGood(t)
        /\ task[t].claimedBy = job[a].executor /\ task[t].lease = job[a].lease
        /\ execution[t] = << >>
    BY <1>1, <1>2, <1>3
       DEF Reads, StatusWhere, IInv, RowInv, RowGood, OneOutcome, ClaimStatus
  <2>3. RowStep(t) /\ RowGood(t)'
    BY <2>1, <2>2 DEF ReportWrite, RowStep, RowGood, ClaimStatus
  <2>4. /\ job' \in [Actors -> Job]
        /\ job'[a] = [job[a] EXCEPT !.pc = "release"]
        /\ \A b \in Actors \ {a} : job'[b] = job[b]
    BY <1>2, <1>3, ProceedType DEF ReportWrite, Proceed, IInv, TypeOK, Pc
  <2>5. /\ job'[a].pc = "release" /\ job'[a].task = t
        /\ job'[a].executor = job[a].executor /\ job'[a].lease = job[a].lease
    BY <1>2, <2>4 DEF IInv, TypeOK, Job
  <2>6. Reads(a)'
    BY <2>1, <2>2, <2>5 DEF Reads, ReportWrite
  <2>7. ASSUME NEW b \in Actors, Reporting(b) PROVE job[b].task # t
    BY <2>2, <2>7 DEF IInv, ReadsInv, Reads, Reporting, ClaimStatus
  <2>8. ASSUME NEW b \in Actors, NEW c \in Actors, b # c
        PROVE  /\ (Claiming(b) /\ Claiming(c) => job[b].lease # job[c].lease)'
               /\ (Reporting(b) /\ Reporting(c) => job[b].task # job[c].task)'
    <3>1. \A d \in Actors \ {a} : job'[d] = job[d]
      BY <2>4
    <3>2. CallsDiffer
      BY DEF IInv
    <3>3. CASE b # a /\ c # a
      BY <2>8, <3>1, <3>2, <3>3 DEF CallsDiffer, Claiming, Reporting
    <3>4. CASE b = a
      BY <2>5, <2>7, <2>8, <3>1, <3>4 DEF Claiming, Reporting
    <3>5. CASE c = a
      BY <2>5, <2>7, <2>8, <3>1, <3>5 DEF Claiming, Reporting
    <3> QED
      BY <3>3, <3>4, <3>5
  <2>9. CallsDiffer'
    BY <2>8 DEF CallsDiffer
  <2> QED
    BY <2>3, <2>4, <2>6, <2>9, CallRowStep DEF ReportWrite, IInv, TypeOK
<1>4. CASE ~StatusWhere(t, job[a].version)
  BY <1>2, <1>4, ReturnInv DEF ReportWrite, UpdateAssignmentStatus, IInv, TypeOK
<1> QED
  BY <1>3, <1>4

\* Claim's guarded update keeps the invariant.
LEMMA ClaimWriteInv ==
  ASSUME IInv, NEW a \in Actors, ClaimWrite(a)
  PROVE  IInv'
<1>1. Reads(a) /\ job[a].pc = "claim" /\ job[a] \in Job
  BY DEF IInv, ReadsInv, ClaimWrite, TypeOK
<1>2. PICK t \in Tasks : t = job[a].task
  BY <1>1 DEF Reads
<1>3. CASE ClaimWhere(t, job[a].version)
  <2>1. PICK l \in Leases :
          /\ lease[l].status = "unissued"
          /\ lease' = [lease EXCEPT ![l] = [status |-> "issued", task |-> t]]
          /\ task' = UpdateAssignmentClaim(t, job[a].executor, l, job[a].left)
          /\ job' = [job EXCEPT ![a].pc = "createLease", ![a].lease = l]
    BY <1>2, <1>3 DEF ClaimWrite
  <2>2. lease' \in [Leases -> LeaseRow] /\ lease'[l] = [status |-> "issued", task |-> t]
    BY <2>1 DEF IInv, TypeOK, LeaseRow
  <2>3. /\ task' \in [Tasks -> Row]
        /\ task'[t].status = "claimed" /\ task'[t].version = task[t].version + 1
        /\ task'[t].claimedBy = job[a].executor /\ task'[t].lease = l
        /\ \A u \in Tasks \ {t} : task'[u] = task[u]
    BY <1>1, <2>1 DEF UpdateAssignmentClaim, IInv, TypeOK, Row, Job, Status, Reads
  <2>4. task[t].status = "assigned" /\ task[t].version = job[a].version
    BY <1>1, <1>2, <1>3 DEF Reads, ClaimWhere
  <2>5. RowStep(t) /\ RowGood(t)'
    BY <1>1, <2>1, <2>2, <2>3, <2>4
       DEF ClaimWrite, RowStep, RowGood, ClaimStatus, Reads
  <2>6. /\ job' \in [Actors -> Job]
        /\ \A b \in Actors \ {a} : job'[b] = job[b]
    <3>1. [job[a] EXCEPT !.pc = "createLease", !.lease = l] \in Job
      BY <1>1 DEF Job, Pc
    <3>2. job' = [job EXCEPT ![a] = [job[a] EXCEPT !.pc = "createLease", !.lease = l]]
      BY <2>1 DEF IInv, TypeOK, Job
    <3> QED
      BY <3>1, <3>2 DEF IInv, TypeOK
  <2>7. /\ job'[a].pc = "createLease" /\ job'[a].task = t /\ job'[a].lease = l
        /\ job'[a].version = job[a].version
    BY <1>2, <2>1 DEF IInv, TypeOK, Job
  <2>8. Reads(a)'
    BY <2>2, <2>3, <2>4, <2>7 DEF Reads, IInv, TypeOK, Row
  <2>9. ASSUME NEW b \in Actors, Claiming(b) PROVE job[b].lease # l
    BY <2>1, <2>9, ClaimingLease
  <2>10. CallsDiffer'
    BY <2>6, <2>7, <2>9 DEF IInv, CallsDiffer, Claiming, Reporting
  <2> QED
    BY <2>2, <2>5, <2>6, <2>8, <2>10, CallRowStep DEF ClaimWrite
<1>4. CASE ~ClaimWhere(t, job[a].version)
  BY <1>2, <1>4, ReturnInv DEF ClaimWrite, IInv, TypeOK
<1> QED
  BY <1>3, <1>4

(* A step that changes the status of one lease that was already generated. *)

LeaseStep(l, s) ==
  /\ lease[l].status # "unissued"
  /\ lease' = [lease EXCEPT ![l].status = s]
  /\ UNCHANGED <<task, execution>>

\* Changing the status of a lease disturbs no row, no outcome and no engine.
LEMMA LeaseStepFrame ==
  ASSUME IInv, NEW l \in Leases, NEW s \in {"active", "released", "revoked"},
         LeaseStep(l, s)
  PROVE  /\ lease' \in [Leases -> LeaseRow]
         /\ lease'[l].status = s /\ lease'[l].task = lease[l].task
         /\ \A k \in Leases \ {l} : lease'[k] = lease[k]
         /\ RowInv'
         /\ engine' = engine => EngineInv'
         /\ OneOutcome'
<1>1. /\ lease' \in [Leases -> LeaseRow]
      /\ lease'[l].status = s /\ lease'[l].task = lease[l].task
      /\ \A k \in Leases \ {l} : lease'[k] = lease[k]
  BY DEF IInv, TypeOK, LeaseRow, LeaseStep
<1>2. \A k \in Leases : /\ lease'[k].task = lease[k].task
                        /\ lease[k].status # "unissued" => lease'[k].status # "unissued"
  BY <1>1
<1>3. RowInv'
  BY <1>2 DEF IInv, RowInv, LeaseStep
<1>4. ASSUME engine' = engine PROVE EngineInv'
  BY <1>2, <1>4 DEF IInv, EngineInv, Listed, Cleared, Waiting, Expired, LeaseStep
<1>5. OneOutcome'
  BY DEF IInv, OneOutcome, LeaseStep
<1> QED
  BY <1>1, <1>3, <1>4, <1>5

\* Changing the status of a lease keeps what other calls rely on.
LEMMA LeaseStepReads ==
  ASSUME IInv, NEW l \in Leases, NEW s \in {"active", "released", "revoked"},
         LeaseStep(l, s), NEW b \in Actors, job'[b] = job[b],
         Claiming(b) => job[b].lease # l
  PROVE  Reads(b)'
<1>1. Reads(b) /\ \A k \in Leases \ {l} : lease'[k] = lease[k]
  BY LeaseStepFrame DEF IInv, ReadsInv
<1> QED
  BY <1>1 DEF Reads, LeaseStep, Claiming

\* Inserting the lease keeps the invariant, even if the claim is gone by then.
LEMMA CreateLeaseInv ==
  ASSUME IInv, NEW a \in Actors, CreateLease(a)
  PROVE  IInv'
<1>1. Reads(a) /\ job[a].pc = "createLease"
  BY DEF IInv, ReadsInv, CreateLease
<1>2. PICK l \in Leases : l = job[a].lease
  BY <1>1 DEF Reads
<1>3. lease[l].status = "issued" /\ LeaseStep(l, "active")
  BY <1>1, <1>2 DEF Reads, CreateLease, LeaseStep
<1>4. /\ lease' \in [Leases -> LeaseRow]
      /\ lease'[l].status = "active" /\ lease'[l].task = lease[l].task
      /\ \A k \in Leases \ {l} : lease'[k] = lease[k]
      /\ RowInv' /\ EngineInv' /\ OneOutcome'
  BY <1>3, LeaseStepFrame DEF CreateLease
<1>5. /\ job' \in [Actors -> Job] /\ job'[a].pc \in {"idle", "execute"}
      /\ job'[a].pc # "idle" => job'[a].task = job[a].task
      /\ \A b \in Actors \ {a} : job'[b] = job[b]
  <2>1. CASE a \in Workers
    BY <2>1, ProceedType DEF CreateLease, Proceed, IInv, TypeOK, Pc, Job
  <2>2. CASE a \notin Workers
    BY <2>2, Returned DEF CreateLease, Idle
  <2> QED
    BY <2>1, <2>2
<1>6. Reads(a)'
  BY <1>1, <1>5 DEF Reads
<1>7. \A b \in Actors \ {a} : Claiming(b) => job[b].lease # l
  BY <1>1, <1>2 DEF IInv, CallsDiffer, Claiming, Reporting
<1>8. ReadsInv'
  BY <1>3, <1>5, <1>6, <1>7, LeaseStepReads DEF ReadsInv
<1>9. CallsDiffer'
  BY <1>5 DEF IInv, CallsDiffer, Claiming, Reporting
<1>10. LeaseOutcome'
  BY <1>4 DEF CreateLease, IInv, LeaseOutcome
<1>11. TypeOK'
  BY <1>4, <1>5 DEF CreateLease, IInv, TypeOK
<1> QED
  BY <1>4, <1>8, <1>9, <1>10, <1>11 DEF IInv

\* Ending a lease that the rows allow to end keeps the invariant.
LEMMA EndLeaseInv ==
  ASSUME IInv, NEW l \in Leases, NEW s \in {"released", "revoked"},
         lease' = EndLease(l, s), UNCHANGED <<task, execution>>,
         s = "released" => /\ lease[l].task \in Tasks
                           /\ task[lease[l].task].status = "completed"
                           /\ task[lease[l].task].lease = l,
         s = "revoked" => \A t \in Tasks : task[t].lease # l
  PROVE  /\ lease' \in [Leases -> LeaseRow]
         /\ RowInv' /\ LeaseOutcome' /\ OneOutcome'
         /\ engine' = engine => EngineInv'
         /\ \A b \in Actors : job'[b] = job[b] => Reads(b)'
         /\ \A k \in Leases : lease[k].status # "unissued" => lease'[k].status # "unissued"
<1>1. CASE lease[l].status = "active" /\ l # NoLease
  <2>1. LeaseStep(l, s)
    BY <1>1 DEF EndLease, LeaseStep
  <2>2. /\ lease' \in [Leases -> LeaseRow]
        /\ lease'[l].status = s /\ lease'[l].task = lease[l].task
        /\ \A k \in Leases \ {l} : lease'[k] = lease[k]
        /\ RowInv' /\ OneOutcome' /\ (engine' = engine => EngineInv')
    BY <2>1, LeaseStepFrame
  <2>3. LeaseOutcome'
    BY <2>2 DEF IInv, LeaseOutcome
  <2>4. ASSUME NEW b \in Actors, Claiming(b) PROVE job[b].lease # l
    BY <1>1, <2>4, ClaimingLease
  <2>5. \A b \in Actors : job'[b] = job[b] => Reads(b)'
    BY <2>1, <2>4, LeaseStepReads
  <2> QED
    BY <2>2, <2>3, <2>5
<1>2. CASE ~(lease[l].status = "active" /\ l # NoLease)
  <2>1. lease' = lease
    BY <1>2 DEF EndLease
  <2> QED
    BY <2>1 DEF IInv, TypeOK, RowInv, LeaseOutcome, OneOutcome, EngineInv, Listed, Cleared,
                Waiting, Expired, ReadsInv, Reads
<1> QED
  BY <1>1, <1>2

\* Releasing the lease after the report keeps the invariant.
LEMMA ReleaseLeaseInv ==
  ASSUME IInv, NEW a \in Actors, ReleaseLease(a)
  PROVE  IInv'
<1>1. Reads(a) /\ job[a].pc = "release" /\ job[a].task \in Tasks /\ RowInv
  BY DEF IInv, ReadsInv, Reads, ReleaseLease
<1>2. PICK l \in Leases : l = job[a].lease
  BY <1>1 DEF Reads, RowInv
<1>3. /\ lease[l].task \in Tasks
      /\ task[lease[l].task].status = "completed"
      /\ task[lease[l].task].lease = l
  BY <1>1, <1>2 DEF Reads, RowInv
<1>4. lease' = EndLease(l, "released") /\ UNCHANGED <<task, execution, batch, engine, faults>>
  BY <1>2 DEF ReleaseLease
<1>5. /\ lease' \in [Leases -> LeaseRow]
      /\ RowInv' /\ LeaseOutcome' /\ OneOutcome' /\ EngineInv'
      /\ \A b \in Actors : job'[b] = job[b] => Reads(b)'
  BY <1>3, <1>4, EndLeaseInv
<1>6. /\ job' \in [Actors -> Job] /\ job'[a].pc = "record"
      /\ job'[a].task = job[a].task /\ job'[a].lease = job[a].lease
      /\ job'[a].executor = job[a].executor
      /\ \A b \in Actors \ {a} : job'[b] = job[b]
  BY ProceedType DEF ReleaseLease, Proceed, IInv, TypeOK, Pc, Job
<1>7. Reads(a)'
  BY <1>1, <1>4, <1>6 DEF Reads
<1>8. ReadsInv'
  BY <1>5, <1>6, <1>7 DEF ReadsInv
<1>9. CallsDiffer'
  BY <1>1, <1>6 DEF IInv, CallsDiffer, Claiming, Reporting
<1>10. TypeOK'
  BY <1>4, <1>5, <1>6 DEF IInv, TypeOK
<1> QED
  BY <1>5, <1>8, <1>9, <1>10 DEF IInv

\* Recording the execution keeps the invariant: it is the first record.
LEMMA InsertExecutionInv ==
  ASSUME IInv, NEW a \in Actors, InsertExecution(a)
  PROVE  IInv'
<1>1. Reads(a) /\ job[a].pc = "record"
  BY DEF IInv, ReadsInv, InsertExecution
<1>2. PICK t \in Tasks : t = job[a].task
  BY <1>1 DEF Reads
<1>3. /\ task[t].status = "completed" /\ task[t].claimedBy = job[a].executor
      /\ execution[t] = << >> /\ task[t].claimedBy \in Executors
  BY <1>1, <1>2 DEF Reads, IInv, RowInv
<1>4. UNCHANGED <<task, lease, batch, engine, faults>>
  BY DEF InsertExecution
<1>5. /\ execution'[t] = <<task[t].claimedBy>>
      /\ execution' \in [Tasks -> Seq(Executors)]
      /\ \A u \in Tasks \ {t} : execution'[u] = execution[u]
  BY <1>2, <1>3 DEF InsertExecution, IInv, TypeOK
<1>6. /\ job' \in [Actors -> Job] /\ Reads(a)' /\ CallsDiffer'
      /\ \A b \in Actors \ {a} : job'[b] = job[b]
  BY Returned DEF InsertExecution
<1>7. ASSUME NEW b \in Actors \ {a} PROVE Reads(b)'
  <2>1. Reads(b) /\ job'[b] = job[b]
    BY <1>6 DEF IInv, ReadsInv
  <2>2. job[b].pc \in {"release", "record"} => job[b].task # t
    BY <1>1, <1>2 DEF IInv, CallsDiffer, Reporting
  <2> QED
    BY <1>4, <1>5, <2>1, <2>2 DEF Reads
<1>8. ReadsInv'
  BY <1>6, <1>7 DEF ReadsInv
<1>9. OneOutcome'
  BY <1>3, <1>4, <1>5 DEF IInv, OneOutcome
<1>10. TypeOK' /\ RowInv' /\ LeaseOutcome'
  BY <1>4, <1>5, <1>6 DEF IInv, TypeOK, RowInv, LeaseOutcome
<1>11. EngineInv'
  BY <1>4 DEF IInv, EngineInv, Listed, Cleared, Waiting, Expired
<1> QED
  BY <1>6, <1>8, <1>9, <1>10, <1>11 DEF IInv

-----------------------------------------------------------------------------
(* The worker's loop. *)

\* Polling for claimable tasks keeps the invariant.
LEMMA WorkerPollInv ==
  ASSUME IInv, NEW w \in Workers, WorkerPoll(w)
  PROVE  IInv'
<1>1. batch' \in [Workers -> SUBSET Tasks]
  BY DEF IInv, TypeOK, WorkerPoll, ListClaimableTasks, AssignedTasks
<1>2. w \in Actors /\ Reads(w)
  BY DEF Actors, IInv, ReadsInv
<1>3. Reads(w)'
  BY <1>2 DEF WorkerPoll, Reads
<1> QED
  BY <1>1, <1>2, <1>3, CallStep DEF WorkerPoll, IInv, TypeOK, Claiming, Reporting

\* Taking the next task of a batch keeps the invariant.
LEMMA WorkerNextInv ==
  ASSUME IInv, NEW w \in Workers, WorkerNext(w)
  PROVE  IInv'
<1>1. w \in Actors /\ WorkerId[w] \in Executors /\ Reads(w) /\ job[w].pc = "idle"
  BY ConstantsAssumption DEF Actors, IInv, ReadsInv, WorkerNext
<1>2. PICK t \in batch[w] :
        /\ batch' = [batch EXCEPT ![w] = @ \ {t}]
        /\ IF task[t].status = "assigned" THEN ClaimRead(w, t, WorkerId[w]) ELSE UNCHANGED job
  BY DEF WorkerNext
<1>3. t \in Tasks /\ batch' \in [Workers -> SUBSET Tasks]
  BY <1>2 DEF IInv, TypeOK
<1>4. UNCHANGED <<task, lease, execution, engine, faults>>
  BY DEF WorkerNext
<1>5. CASE task[t].status = "assigned"
  <2>1. job' \in [Actors -> Job] /\ job'[w].pc = "claim"
    <3>1. Begin(w, "claim", t, WorkerId[w])
      BY <1>2, <1>5 DEF ClaimRead
    <3>2. job' \in [Actors -> Job]
      BY <1>1, <1>3, <3>1, BeginType DEF IInv, Pc
    <3> QED
      BY <1>1, <3>1, <3>2 DEF Begin, IInv, TypeOK
  <2>2. Reads(w)'
    BY <1>1, <1>2, <1>3, <1>4, <1>5 DEF IInv, TypeOK, ClaimRead, Begin, Reads, Row
  <2> QED
    BY <1>1, <1>2, <1>3, <1>4, <1>5, <2>1, <2>2, CallStep
       DEF IInv, TypeOK, ClaimRead, Begin, Claiming, Reporting
<1>6. CASE task[t].status # "assigned"
  <2>1. Reads(w)'
    BY <1>1, <1>2, <1>4, <1>6 DEF Reads
  <2> QED
    BY <1>1, <1>2, <1>3, <1>4, <1>6, <2>1, CallStep DEF IInv, TypeOK, Claiming, Reporting
<1> QED
  BY <1>5, <1>6

\* The worker's report, or its refusal, keeps the invariant.
LEMMA WorkerReportInv ==
  ASSUME IInv, NEW w \in Workers, WorkerReport(w)
  PROVE  IInv'
<1>1. w \in Actors /\ WorkerId[w] \in Executors /\ Reads(w) /\ job[w].pc = "execute"
  BY ConstantsAssumption DEF Actors, IInv, ReadsInv, WorkerReport
<1>2. PICK t \in Tasks : t = job[w].task
  BY <1>1 DEF Reads
<1>3. CASE MayReport(t, WorkerId[w])
  <2>1. Begin(w, "report", t, WorkerId[w])
    BY <1>2, <1>3 DEF WorkerReport
  <2>2. job' \in [Actors -> Job] /\ job'[w].pc = "report"
    BY <1>1, <2>1, BeginType DEF IInv, Pc, Begin, TypeOK
  <2>3. Reads(w)'
    BY <1>1, <1>3, <2>1
       DEF IInv, TypeOK, WorkerReport, MayReport, Begin, Reads, Row,
           CanTransition, Transitions, ClaimStatus
  <2> QED
    BY <1>1, <2>1, <2>2, <2>3, CallStep
       DEF IInv, TypeOK, WorkerReport, Begin, Claiming, Reporting
<1>4. CASE ~MayReport(t, WorkerId[w])
  BY <1>1, <1>2, <1>4, ReturnInv DEF WorkerReport, IInv, TypeOK
<1> QED
  BY <1>3, <1>4

-----------------------------------------------------------------------------
(* The engine's steps. *)

\* A step of the engine alone keeps the invariant, if what it relies on
\* afterwards is true.
LEMMA EngineStepFrame ==
  ASSUME IInv, UNCHANGED <<task, lease, execution, job, batch>>,
         faults' \in 0 .. MaxFaults, engine' \in Engine, EngineInv'
  PROVE  IInv'
<1>1. TypeOK'
  BY DEF IInv, TypeOK
<1>2. RowInv' /\ LeaseOutcome' /\ OneOutcome'
  BY DEF IInv, RowInv, LeaseOutcome, OneOutcome
<1>3. ReadsInv' /\ CallsDiffer'
  BY DEF IInv, ReadsInv, Reads, CallsDiffer, Claiming, Reporting
<1> QED
  BY <1>1, <1>2, <1>3 DEF IInv

\* Listing the expired claims keeps the invariant.
LEMMA EngineScanInv ==
  ASSUME IInv, EngineScan
  PROVE  IInv'
<1> DEFINE copies == {[task |-> t, version |-> task[t].version, lease |-> task[t].lease] :
                        t \in ListExpiredClaims}
<1>1. engine' = [engine EXCEPT !.todo = copies]
  BY DEF EngineScan
<1>2. ASSUME NEW s \in copies PROVE s \in Snapshot /\ Listed(s)
  <2>1. PICK t \in ListExpiredClaims :
          s = [task |-> t, version |-> task[t].version, lease |-> task[t].lease]
    BY <1>2
  <2>2. t \in Tasks /\ Expired(t)
    BY DEF ListExpiredClaims, Expired
  <2>3. /\ task[t].lease \in Leases /\ lease[task[t].lease].task = t
        /\ lease[task[t].lease].status # "unissued" /\ task[t].version \in Nat
    BY <2>2 DEF Expired, IInv, RowInv, TypeOK, Row
  <2> QED
    BY <2>1, <2>2, <2>3 DEF Snapshot, Listed
<1>3. engine' \in Engine
  BY <1>1, <1>2 DEF IInv, TypeOK, Engine
<1>4. /\ engine'.todo = copies /\ engine'.pc = "loop"
      /\ UNCHANGED <<task, lease, execution, job, batch, faults>>
  BY <1>1 DEF EngineScan, EngineAt, IInv, TypeOK, Engine
<1>5. \A s \in copies : Listed(s)'
  BY <1>2, <1>4 DEF Listed, Expired
<1>6. EngineInv'
  BY <1>4, <1>5 DEF EngineInv
<1> QED
  BY <1>3, <1>4, <1>6, EngineStepFrame DEF IInv, TypeOK

\* Preempting a listed row, or passing it over, keeps the invariant.
LEMMA EnginePreemptInv ==
  ASSUME IInv, EnginePreempt
  PROVE  IInv'
<1>1. PICK s \in engine.todo :
        /\ task' = ClearAssignmentClaim(s.task, s.version)
        /\ engine' = IF ClearWhere(s.task, s.version)
                     THEN [engine EXCEPT !.pc = "revoke", !.todo = @ \ {s}, !.current = s]
                     ELSE [engine EXCEPT !.todo = @ \ {s}]
  BY DEF EnginePreempt
<1>2. UNCHANGED <<lease, execution, job, batch, faults>> /\ engine.pc = "loop"
  BY DEF EnginePreempt, EngineAt
<1>3. /\ s \in Snapshot /\ Listed(s) /\ engine \in Engine
      /\ \A r \in engine.todo : r \in Snapshot /\ Listed(r)
  BY DEF IInv, TypeOK, EngineInv, Engine
<1>4. PICK t \in Tasks : t = s.task
  BY <1>3 DEF Listed
<1>5. CASE ClearWhere(t, s.version)
  <2>1. /\ task' \in [Tasks -> Row]
        /\ task'[t].status = "preempted" /\ task'[t].version = task[t].version + 1
        /\ task'[t].claimedBy = NoExecutor /\ task'[t].lease = NoLease
        /\ \A u \in Tasks \ {t} : task'[u] = task[u]
    BY <1>1, <1>4, <1>5, ClaimCleared DEF IInv
  <2>2. task[t].status \in ClaimStatus /\ task[t].lease = s.lease
    BY <1>3, <1>4, <1>5 DEF Listed, ClearWhere, Expired
  <2>3. RowStep(t) /\ RowGood(t)'
    BY <1>2, <2>1, <2>2 DEF RowStep, RowGood, ClaimStatus
  <2>4. engine' = [engine EXCEPT !.pc = "revoke", !.todo = @ \ {s}, !.current = s]
    BY <1>1, <1>4, <1>5
  <2>5. /\ engine' \in Engine /\ engine'.pc = "revoke" /\ engine'.current = s
        /\ engine'.todo = engine.todo \ {s}
    BY <1>3, <2>4 DEF Engine
  <2>6. \A r \in engine.todo : Listed(r)'
    BY <1>3, <2>3, RowStepListed
  <2>7. Cleared(s)'
    <3>1. \A u \in Tasks \ {t} : task[u].lease # s.lease
      BY ConstantsAssumption, <1>3, <1>4, <2>2 DEF Listed, IInv, RowInv, ClaimStatus
    <3> QED
      BY ConstantsAssumption, <1>2, <1>3, <2>1, <3>1 DEF Cleared, Listed
  <2>8. EngineInv'
    BY <2>5, <2>6, <2>7 DEF EngineInv
  <2>9. TypeOK' /\ CallsDiffer'
    BY <1>2, <2>1, <2>5 DEF IInv, TypeOK, CallsDiffer, Claiming, Reporting
  <2>10. ReadsInv'
    BY <1>2, <2>3, RowStepReads DEF ReadsInv
  <2> QED
    BY <2>3, <2>8, <2>9, <2>10, RowStepRows, RowStepLeaseOutcome, RowStepOutcome DEF IInv
<1>6. CASE ~ClearWhere(t, s.version)
  <2>1. task' = task /\ engine' = [engine EXCEPT !.todo = @ \ {s}]
    BY <1>1, <1>4, <1>6 DEF ClearAssignmentClaim
  <2>2. /\ engine' \in Engine /\ engine'.pc = "loop"
        /\ engine'.todo = engine.todo \ {s}
    BY <1>2, <1>3, <2>1 DEF Engine
  <2>3. EngineInv'
    BY <1>2, <1>3, <2>1, <2>2 DEF EngineInv, Listed, Expired
  <2> QED
    BY <1>2, <2>1, <2>2, <2>3, EngineStepFrame DEF IInv, TypeOK
<1> QED
  BY <1>5, <1>6

\* Revoking the lease of a preempted row keeps the invariant.
LEMMA EngineRevokeInv ==
  ASSUME IInv, EngineRevoke
  PROVE  IInv'
<1>1. Cleared(engine.current) /\ engine \in Engine
  BY DEF IInv, TypeOK, EngineInv, EngineRevoke, EngineAt
<1>2. PICK l \in Leases : l = engine.current.lease
  BY <1>1 DEF Cleared
<1>3. lease' = EndLease(l, "revoked") /\ UNCHANGED <<task, execution, job, batch, faults>>
  BY <1>2 DEF EngineRevoke
<1>4. /\ lease' \in [Leases -> LeaseRow]
      /\ RowInv' /\ LeaseOutcome' /\ OneOutcome'
      /\ \A b \in Actors : job'[b] = job[b] => Reads(b)'
      /\ \A k \in Leases : lease[k].status # "unissued" => lease'[k].status # "unissued"
  BY <1>1, <1>2, <1>3, EndLeaseInv DEF Cleared
<1>5. \A k \in Leases : lease'[k].task = lease[k].task
  BY <1>3 DEF EndLease, IInv, TypeOK, LeaseRow
<1>6. /\ engine' \in Engine /\ engine'.pc = "loop" /\ engine'.todo = engine.todo
  BY <1>1 DEF EngineRevoke, Engine, Snapshot, NoSnapshot, Cleared
<1>7. EngineInv'
  BY <1>3, <1>4, <1>5, <1>6 DEF IInv, EngineInv, Listed, Expired
<1>8. ReadsInv' /\ CallsDiffer'
  BY <1>3, <1>4 DEF IInv, ReadsInv, CallsDiffer, Claiming, Reporting
<1>9. TypeOK'
  BY <1>3, <1>4, <1>6 DEF IInv, TypeOK
<1> QED
  BY <1>4, <1>7, <1>8, <1>9 DEF IInv

\* Reading a preempted row for reassignment keeps the invariant.
LEMMA EngineReassignReadInv ==
  ASSUME IInv, EngineReassignRead
  PROVE  IInv'
<1>1. PICK t \in engine.preempted :
        engine' =
          IF CanTransition(task[t].status, "assigned")
          THEN [engine EXCEPT !.pc = "reassign", !.preempted = @ \ {t},
                  !.current = [task |-> t, version |-> task[t].version, lease |-> NoLease]]
          ELSE [engine EXCEPT !.preempted = @ \ {t}]
  BY DEF EngineReassignRead
<1>2. /\ engine.pc = "loop" /\ engine.todo = {}
      /\ UNCHANGED <<task, lease, execution, job, batch, faults>>
  BY DEF EngineReassignRead, EngineAt
<1>3. engine \in Engine /\ t \in Tasks /\ task[t].version \in Nat
  BY DEF IInv, TypeOK, Engine, Row
<1>4. CASE CanTransition(task[t].status, "assigned")
  <2>1. PICK s \in Snapshot : s = [task |-> t, version |-> task[t].version, lease |-> NoLease]
    BY <1>3 DEF Snapshot
  <2>2. engine' = [engine EXCEPT !.pc = "reassign", !.preempted = @ \ {t}, !.current = s]
    BY <1>1, <1>4, <2>1
  <2>3. /\ engine' \in Engine /\ engine'.pc = "reassign" /\ engine'.todo = {}
        /\ engine'.current = s
    BY <1>2, <1>3, <2>1, <2>2 DEF Engine
  <2>4. Waiting(s)'
    BY <1>2, <1>3, <1>4, <2>1 DEF Waiting, CanTransition, Transitions
  <2>5. EngineInv'
    BY <2>3, <2>4 DEF EngineInv
  <2> QED
    BY <1>2, <2>3, <2>5, EngineStepFrame DEF IInv, TypeOK
<1>5. CASE ~CanTransition(task[t].status, "assigned")
  <2>1. engine' = [engine EXCEPT !.preempted = @ \ {t}]
    BY <1>1, <1>5
  <2>2. engine' \in Engine /\ engine'.pc = "loop" /\ engine'.todo = {}
    BY <1>2, <1>3, <2>1 DEF Engine
  <2> QED
    BY <1>2, <2>2, EngineStepFrame DEF IInv, TypeOK, EngineInv
<1> QED
  BY <1>4, <1>5

\* Reassigning a preempted row keeps the invariant.
LEMMA EngineReassignWriteInv ==
  ASSUME IInv, EngineReassignWrite
  PROVE  IInv'
<1>1. Waiting(engine.current) /\ engine \in Engine
  BY DEF IInv, TypeOK, EngineInv, EngineReassignWrite, EngineAt
<1>2. PICK t \in Tasks : t = engine.current.task
  BY <1>1 DEF Waiting
<1>3. UNCHANGED <<lease, execution, job, batch, faults>>
  BY DEF EngineReassignWrite
<1>4. /\ engine' \in Engine /\ engine'.pc = "loop" /\ engine'.todo = engine.todo
  BY <1>1 DEF EngineReassignWrite, Engine, Snapshot, NoSnapshot
<1>5. task' = UpdateAssignmentStatus(t, "assigned", engine.current.version)
  BY <1>2 DEF EngineReassignWrite
<1>6. \A r \in engine.todo : r \in Snapshot /\ Listed(r)
  BY DEF IInv, TypeOK, EngineInv, Engine
<1>7. CASE StatusWhere(t, engine.current.version)
  <2>1. /\ task' \in [Tasks -> Row]
        /\ task'[t].status = "assigned" /\ task'[t].version = task[t].version + 1
        /\ task'[t].claimedBy = task[t].claimedBy /\ task'[t].lease = task[t].lease
        /\ \A u \in Tasks \ {t} : task'[u] = task[u]
    BY <1>5, <1>7, StatusWritten DEF IInv, Status
  <2>2. task[t].status \in {"created", "preempted"} /\ RowGood(t) /\ task[t].version \in Nat
    BY <1>1, <1>2, <1>7 DEF Waiting, StatusWhere, IInv, RowInv, RowGood, TypeOK, Row
  <2>3. RowStep(t) /\ RowGood(t)'
    BY <1>3, <2>1, <2>2 DEF RowStep, RowGood, ClaimStatus
  <2>4. EngineInv'
    BY <1>4, <1>6, <2>3, RowStepListed DEF EngineInv
  <2>5. TypeOK' /\ CallsDiffer'
    BY <1>3, <1>4, <2>1 DEF IInv, TypeOK, CallsDiffer, Claiming, Reporting
  <2>6. ReadsInv'
    BY <1>3, <2>3, RowStepReads DEF ReadsInv
  <2> QED
    BY <2>3, <2>4, <2>5, <2>6, RowStepRows, RowStepLeaseOutcome, RowStepOutcome DEF IInv
<1>8. CASE ~StatusWhere(t, engine.current.version)
  <2>1. task' = task
    BY <1>5, <1>8 DEF UpdateAssignmentStatus
  <2>2. EngineInv'
    BY <1>3, <1>4, <1>6, <2>1 DEF EngineInv, Listed, Expired
  <2> QED
    BY <1>3, <1>4, <2>1, <2>2, EngineStepFrame DEF IInv, TypeOK
<1> QED
  BY <1>7, <1>8

-----------------------------------------------------------------------------
(* Time, failed statements and crashes. *)

\* The passing of time keeps the invariant: an expired claim stays expired.
LEMMA TickInv ==
  ASSUME IInv, Tick
  PROVE  IInv'
<1>1. /\ task' = [t \in Tasks |-> IF task[t].status \in ClaimStatus
                                 THEN [task[t] EXCEPT !.left = Age(@)] ELSE task[t]]
      /\ job' = [a \in Actors |-> IF job[a].pc = "claim"
                                 THEN [job[a] EXCEPT !.left = Age(@)] ELSE job[a]]
      /\ UNCHANGED <<lease, execution, batch, engine, faults>>
  BY DEF Tick
<1>2. \A left \in Left : Age(left) \in Left
  BY ConstantsAssumption DEF Age, Left, NoDeadline
<1>3. ASSUME NEW t \in Tasks
      PROVE  /\ task'[t] \in Row
             /\ task'[t].status = task[t].status /\ task'[t].version = task[t].version
             /\ task'[t].claimedBy = task[t].claimedBy /\ task'[t].lease = task[t].lease
             /\ task[t].left < 0 => task'[t].left < 0
  <2>1. task[t] \in Row /\ task[t].left \in Left
    BY DEF IInv, TypeOK, Row
  <2>2. task'[t] = IF task[t].status \in ClaimStatus
                   THEN [task[t] EXCEPT !.left = Age(task[t].left)] ELSE task[t]
    BY <1>1
  <2>3. task[t].left < 0 => Age(task[t].left) = task[t].left
    BY <2>1, ConstantsAssumption DEF Age, Left, NoDeadline
  <2> QED
    BY <1>2, <2>1, <2>2, <2>3 DEF Row
<1>4. ASSUME NEW a \in Actors
      PROVE  /\ job'[a] \in Job
             /\ job'[a].pc = job[a].pc /\ job'[a].task = job[a].task
             /\ job'[a].version = job[a].version
             /\ job'[a].executor = job[a].executor /\ job'[a].lease = job[a].lease
  <2>1. job[a] \in Job /\ job[a].left \in Left
    BY DEF IInv, TypeOK, Job
  <2>2. job'[a] = IF job[a].pc = "claim" THEN [job[a] EXCEPT !.left = Age(job[a].left)] ELSE job[a]
    BY <1>1
  <2> QED
    BY <1>2, <2>1, <2>2 DEF Job
<1>5. TypeOK'
  BY <1>1, <1>3, <1>4 DEF IInv, TypeOK
<1>6. RowInv'
  BY <1>1, <1>3 DEF IInv, RowInv
<1>7. LeaseOutcome'
  BY <1>1, <1>3 DEF IInv, LeaseOutcome
<1>8. OneOutcome'
  BY <1>1, <1>3 DEF IInv, OneOutcome
<1>9. ASSUME NEW a \in Actors PROVE Reads(a)'
  <2>1. Reads(a)
    BY DEF IInv, ReadsInv
  <2>2. CASE job[a].task \in Tasks
    BY <1>1, <1>3, <1>4, <2>1, <2>2 DEF Reads
  <2>3. CASE job[a].task \notin Tasks
    BY <1>4, <2>1, <2>3 DEF Reads
  <2> QED
    BY <2>2, <2>3
<1>10. CallsDiffer'
  BY <1>4 DEF IInv, CallsDiffer, Claiming, Reporting
<1>11. EngineInv'
  BY <1>1, <1>3 DEF IInv, EngineInv, Listed, Cleared, Waiting, Expired
<1> QED
  BY <1>5, <1>6, <1>7, <1>8, <1>9, <1>10, <1>11 DEF IInv, ReadsInv

\* The number of faults stays within its bound.
LEMMA FaultType ==
  ASSUME TypeOK, Fault
  PROVE  faults' \in 0 .. MaxFaults
BY ConstantsAssumption DEF TypeOK, Fault

\* A failed statement of a call keeps the invariant.
LEMMA StatementFailsInv ==
  ASSUME IInv, NEW a \in Actors, StatementFails(a)
  PROVE  IInv'
<1>1. Reads(a) /\ faults' \in 0 .. MaxFaults
  BY FaultType DEF IInv, ReadsInv, StatementFails
<1>2. UNCHANGED <<task, lease, execution, batch, engine>>
  BY DEF StatementFails
<1>3. ASSUME NEW pc \in {"undo", "record"}, Proceed(a, pc),
             pc = "undo" => job[a].pc = "createLease",
             pc = "record" => job[a].pc = "release"
      PROVE  IInv'
  <2>1. /\ job' \in [Actors -> Job] /\ job'[a].pc = pc
        /\ job'[a].task = job[a].task /\ job'[a].lease = job[a].lease
        /\ job'[a].version = job[a].version /\ job'[a].executor = job[a].executor
        /\ \A b \in Actors \ {a} : job'[b] = job[b]
    BY <1>3, ProceedType DEF Proceed, IInv, TypeOK, Pc, Job
  <2>2. Reads(a)'
    BY <1>1, <1>2, <1>3, <2>1 DEF Reads
  <2> QED
    BY <1>1, <1>2, <1>3, <2>1, <2>2, CallStep DEF Claiming, Reporting, IInv, TypeOK
<1>4. ASSUME Return(a) PROVE IInv'
  BY <1>1, <1>2, <1>4, ReturnInv DEF IInv, TypeOK
<1> QED
  BY <1>3, <1>4 DEF StatementFails

\* A failed statement of the engine keeps the invariant.
LEMMA EngineStatementFailsInv ==
  ASSUME IInv, EngineStatementFails
  PROVE  IInv'
<1>1. faults' \in 0 .. MaxFaults /\ UNCHANGED <<task, lease, execution, job, batch>>
  BY FaultType DEF IInv, EngineStatementFails
<1>2. engine \in Engine /\ EngineInv
  BY DEF IInv, TypeOK
<1>3. engine' \in Engine /\ engine'.pc = "loop" /\ engine'.todo \subseteq engine.todo
  <2>1. NoSnapshot \in Snapshot
    BY DEF NoSnapshot, Snapshot
  <2>2. ASSUME NEW s \in engine.todo, engine.pc = "loop",
               engine' = [engine EXCEPT !.todo = @ \ {s}]
        PROVE  engine' \in Engine /\ engine'.pc = "loop" /\ engine'.todo \subseteq engine.todo
    BY <1>2, <2>2 DEF Engine
  <2>3. ASSUME NEW P \in SUBSET Tasks,
               engine' = [engine EXCEPT !.pc = "loop", !.current = NoSnapshot, !.preempted = P]
        PROVE  engine' \in Engine /\ engine'.pc = "loop" /\ engine'.todo \subseteq engine.todo
    BY <1>2, <2>1, <2>3 DEF Engine
  <2>4. ASSUME NEW P \in SUBSET Tasks, engine.pc = "loop",
               engine' = [engine EXCEPT !.preempted = P]
        PROVE  engine' \in Engine /\ engine'.pc = "loop" /\ engine'.todo \subseteq engine.todo
    BY <1>2, <2>4 DEF Engine
  <2>5. engine.pc = "revoke" => engine.current.task \in Tasks
    BY <1>2 DEF EngineInv, Cleared
  <2>6. engine.preempted \in SUBSET Tasks
    BY <1>2 DEF Engine
  <2>7. ASSUME engine' = [engine EXCEPT !.pc = "loop", !.current = NoSnapshot]
        PROVE  engine' \in Engine /\ engine'.pc = "loop" /\ engine'.todo \subseteq engine.todo
    BY <1>2, <2>1, <2>7 DEF Engine
  <2>8. CASE /\ EngineAt("loop")
             /\ \E s \in engine.todo : engine' = [engine EXCEPT !.todo = @ \ {s}]
    BY <2>2, <2>8 DEF EngineAt
  <2>9. CASE /\ EngineAt("revoke")
             /\ engine' = [engine EXCEPT !.pc = "loop", !.current = NoSnapshot,
                                         !.preempted = @ \union {engine.current.task}]
    <3>1. PICK P \in SUBSET Tasks : P = engine.preempted \union {engine.current.task}
      BY <2>5, <2>6, <2>9 DEF EngineAt
    <3>2. engine' = [engine EXCEPT !.pc = "loop", !.current = NoSnapshot, !.preempted = P]
      BY <1>2, <2>9, <3>1 DEF Engine
    <3> QED
      BY <2>3, <3>2
  <2>10. CASE /\ EngineAt("loop")
              /\ \E t \in engine.preempted : engine' = [engine EXCEPT !.preempted = @ \ {t}]
    <3>1. PICK P \in SUBSET Tasks : engine' = [engine EXCEPT !.preempted = P]
      BY <2>6, <2>10
    <3> QED
      BY <2>4, <2>10, <3>1 DEF EngineAt
  <2>11. CASE /\ EngineAt("reassign")
              /\ engine' = [engine EXCEPT !.pc = "loop", !.current = NoSnapshot]
    BY <2>7, <2>11
  <2> QED
    BY <2>8, <2>9, <2>10, <2>11 DEF EngineStatementFails
<1>4. EngineInv'
  BY <1>1, <1>2, <1>3 DEF EngineInv, Listed, Expired
<1> QED
  BY <1>1, <1>3, <1>4, EngineStepFrame

\* An actor whose call is abandoned relies on nothing.
LEMMA Abandoned ==
  ASSUME IInv, job' \in [Actors -> Job], \A a \in Actors : job'[a] \in {job[a], Idle},
         batch' \in [Workers -> SUBSET Tasks], faults' \in 0 .. MaxFaults,
         engine' \in {engine, EngineIdle}, UNCHANGED <<task, lease, execution>>
  PROVE  IInv'
<1>1. engine' \in Engine
  BY DEF IInv, TypeOK, Engine, EngineIdle, Snapshot, NoSnapshot
<1>2. TypeOK'
  BY <1>1 DEF IInv, TypeOK
<1>3. RowInv' /\ LeaseOutcome' /\ OneOutcome'
  BY DEF IInv, RowInv, LeaseOutcome, OneOutcome
<1>4. EngineInv'
  <2>1. CASE engine' = engine
    BY <2>1 DEF IInv, EngineInv, Listed, Cleared, Waiting, Expired
  <2>2. CASE engine' = EngineIdle
    BY <2>2 DEF EngineInv, EngineIdle
  <2> QED
    BY <2>1, <2>2
<1>5. ASSUME NEW a \in Actors PROVE Reads(a)'
  <2>1. CASE job'[a] = job[a]
    BY <2>1 DEF IInv, ReadsInv, Reads
  <2>2. CASE job'[a] = Idle
    BY <2>2 DEF Reads, Idle
  <2> QED
    BY <2>1, <2>2
<1>6. ASSUME NEW a \in Actors
      PROVE  /\ Claiming(a)' => Claiming(a) /\ job'[a] = job[a]
             /\ Reporting(a)' => Reporting(a) /\ job'[a] = job[a]
  BY DEF Claiming, Reporting, Idle
<1>7. CallsDiffer'
  BY <1>6 DEF IInv, CallsDiffer
<1> QED
  BY <1>2, <1>3, <1>4, <1>5, <1>7 DEF IInv, ReadsInv

\* A crash of the scheduler process keeps the invariant.
LEMMA SchedulerCrashInv ==
  ASSUME IInv, SchedulerCrash
  PROVE  IInv'
<1>1. Idle \in Job
  BY ConstantsAssumption DEF Idle, Job, Pc, Left, NoDeadline
<1>2. /\ job' \in [Actors -> Job]
      /\ \A a \in Actors : job'[a] \in {job[a], Idle}
  BY <1>1 DEF SchedulerCrash, IInv, TypeOK
<1> QED
  BY <1>2, FaultType, Abandoned DEF SchedulerCrash, IInv, TypeOK

\* A crash of an executor process keeps the invariant.
LEMMA WorkerCrashInv ==
  ASSUME IInv, NEW w \in Workers, WorkerCrash(w)
  PROVE  IInv'
<1>1. w \in Actors /\ batch' \in [Workers -> SUBSET Tasks]
  BY DEF Actors, WorkerCrash, IInv, TypeOK
<1>2. /\ job' \in [Actors -> Job]
      /\ \A a \in Actors : job'[a] \in {job[a], Idle}
  BY <1>1, Returned DEF WorkerCrash
<1> QED
  BY <1>1, <1>2, FaultType, Abandoned DEF WorkerCrash, IInv, TypeOK

-----------------------------------------------------------------------------
(* The theorems. *)

\* The invariant holds of the empty database.
LEMMA InitInv == Init => IInv
<1> SUFFICES ASSUME Init PROVE IInv
  OBVIOUS
<1>1. TypeOK
  BY TypeInit
<1>2. RowInv /\ LeaseOutcome /\ OneOutcome
  BY DEF Init, RowInv, LeaseOutcome, OneOutcome, NoRow, ClaimStatus
<1>3. ReadsInv /\ CallsDiffer
  BY DEF Init, ReadsInv, Reads, CallsDiffer, Claiming, Reporting, Idle
<1>4. EngineInv
  BY DEF Init, EngineInv, EngineIdle
<1> QED
  BY <1>1, <1>2, <1>3, <1>4 DEF IInv

\* A step that changes nothing keeps the invariant.
LEMMA StutterInv == IInv /\ UNCHANGED vars => IInv'
<1> SUFFICES ASSUME IInv, UNCHANGED vars PROVE IInv'
  OBVIOUS
<1> QED
  BY Abandoned DEF vars, IInv, TypeOK

\* Every step of every actor, the engine, the clock or a fault keeps the
\* inductive invariant.
THEOREM NextInv == IInv /\ [Next]_vars => IInv'
<1> SUFFICES ASSUME IInv, [Next]_vars PROVE IInv'
  OBVIOUS
<1>1. CASE Next
  <2>1. Handlers \subseteq Actors
    BY DEF Actors
  <2> QED
    BY <1>1, <2>1, NextCases, CreateInv, AssignReadInv, HandlerClaimInv, ReportReadInv,
       AssignWriteInv, ClaimWriteInv, CreateLeaseInv, UndoClaimInv, ReportWriteInv,
       ReleaseLeaseInv, InsertExecutionInv, WorkerPollInv, WorkerNextInv,
       WorkerReportInv, EngineScanInv, EnginePreemptInv, EngineRevokeInv,
       EngineReassignReadInv, EngineReassignWriteInv, TickInv, StatementFailsInv,
       EngineStatementFailsInv, SchedulerCrashInv, WorkerCrashInv
<1>2. CASE UNCHANGED vars
  BY <1>2, StutterInv
<1> QED
  BY <1>1, <1>2

\* What a version number guarantees holds in every reachable state.
THEOREM Invariant == Spec => []IInv
BY InitInv, NextInv, PTL DEF Spec

\* Rows, leases, records and local copies stay within their domains.
THEOREM TypeCorrect == Spec => []TypeOK
<1>1. IInv => TypeOK
  BY DEF IInv
<1> QED
  BY <1>1, Invariant, PTL

\* The outcome of a task is recorded at most once, under its claimant.
THEOREM OutcomeOnce == Spec => []OneOutcome
<1>1. IInv => OneOutcome
  BY DEF IInv
<1> QED
  BY <1>1, Invariant, PTL

\* The lease table never contradicts the assignment table.
THEOREM LeasesAgree == Spec => []LeaseOutcome
<1>1. IInv => LeaseOutcome
  BY DEF IInv
<1> QED
  BY <1>1, Invariant, PTL

-----------------------------------------------------------------------------
(* What a step does to the rows: nothing the pool or the state machine can  *)
(* see, or one move of one row, or one execution record.                   *)

Same(t) ==
  /\ task'[t].status = task[t].status
  /\ task'[t].version = task[t].version
  /\ task'[t].claimedBy = task[t].claimedBy

Move(t) ==
  \/ task[t].status = "absent" /\ task'[t].status = "created"
     /\ task'[t].claimedBy = task[t].claimedBy
  \/ task[t].status \in {"created", "preempted"} /\ task'[t].status = "assigned"
     /\ task'[t].claimedBy = task[t].claimedBy
  \/ task[t].status = "assigned" /\ task'[t].status = "claimed"
     /\ task'[t].claimedBy \in Executors
  \/ task[t].status \in ClaimStatus /\ task'[t].status = "completed"
     /\ task'[t].claimedBy = task[t].claimedBy
  \/ task[t].status \in ClaimStatus /\ task'[t].status = "preempted"
     /\ task'[t].claimedBy = NoExecutor
     /\ (task[t].left < 0 \/ ClaimUndone(t))

Recorded(t) ==
  /\ task[t].status = "completed"
  /\ execution[t] = << >>
  /\ execution' = [execution EXCEPT ![t] = <<task[t].claimedBy>>]

StepShape ==
  \/ execution' = execution /\ \A t \in Tasks : Same(t)
  \/ \E t \in Tasks : /\ Move(t)
                      /\ \A u \in Tasks \ {t} : Same(u)
                      /\ execution' = execution
  \/ \E t \in Tasks : Recorded(t) /\ \A u \in Tasks : Same(u)

\* Rows and records that do not change have the shape.
LEMMA UnchangedShape ==
  ASSUME UNCHANGED <<task, execution>>
  PROVE  StepShape
BY DEF StepShape, Same

\* Creating a row is one move.
LEMMA CreateShape ==
  ASSUME IInv, NEW t \in Tasks, Create(t)
  PROVE  StepShape
<1>1. Move(t) /\ execution' = execution /\ \A u \in Tasks \ {t} : Same(u)
  BY DEF IInv, TypeOK, Row, Create, Move, Same
<1> QED
  BY <1>1 DEF StepShape

\* Assigning is one move, of a row that was waiting, or none.
LEMMA AssignWriteShape ==
  ASSUME IInv, NEW a \in Actors, AssignWrite(a)
  PROVE  StepShape
<1>1. Reads(a) /\ job[a].pc = "assign" /\ execution' = execution
  BY DEF IInv, ReadsInv, AssignWrite
<1>2. PICK t \in Tasks : t = job[a].task
  BY <1>1 DEF Reads
<1>3. CASE StatusWhere(t, job[a].version)
  <2>1. /\ task'[t].status = "assigned" /\ task'[t].claimedBy = task[t].claimedBy
        /\ \A u \in Tasks \ {t} : task'[u] = task[u]
    BY <1>2, <1>3, StatusWritten DEF AssignWrite, IInv, Status
  <2>2. task[t].status \in {"created", "preempted"}
    BY <1>1, <1>2, <1>3 DEF Reads, StatusWhere
  <2> QED
    BY <1>1, <2>1, <2>2 DEF StepShape, Move, Same
<1>4. CASE ~StatusWhere(t, job[a].version)
  BY <1>1, <1>2, <1>4, UnchangedShape DEF AssignWrite, UpdateAssignmentStatus
<1> QED
  BY <1>3, <1>4

\* Claiming is one move, of a row that was assigned, or none.
LEMMA ClaimWriteShape ==
  ASSUME IInv, NEW a \in Actors, ClaimWrite(a)
  PROVE  StepShape
<1>1. Reads(a) /\ job[a].pc = "claim" /\ execution' = execution
  BY DEF IInv, ReadsInv, ClaimWrite
<1>2. PICK t \in Tasks : t = job[a].task
  BY <1>1 DEF Reads
<1>3. CASE ClaimWhere(t, job[a].version)
  <2>1. PICK l \in Leases : task' = UpdateAssignmentClaim(t, job[a].executor, l, job[a].left)
    BY <1>2, <1>3 DEF ClaimWrite
  <2>2. /\ task'[t].status = "claimed" /\ task'[t].claimedBy = job[a].executor
        /\ \A u \in Tasks \ {t} : task'[u] = task[u]
    BY <2>1 DEF UpdateAssignmentClaim, IInv, TypeOK
  <2>3. task[t].status = "assigned" /\ job[a].executor \in Executors
    BY <1>1, <1>2, <1>3 DEF Reads, ClaimWhere
  <2> QED
    BY <1>1, <2>2, <2>3 DEF StepShape, Move, Same
<1>4. CASE ~ClaimWhere(t, job[a].version)
  BY <1>1, <1>2, <1>4, UnchangedShape DEF ClaimWrite
<1> QED
  BY <1>3, <1>4

\* Undoing a claim is one move, of the undoer's own claim, or none.
LEMMA UndoClaimShape ==
  ASSUME IInv, NEW a \in Actors, UndoClaim(a)
  PROVE  StepShape
<1>1. Reads(a) /\ job[a].pc = "undo" /\ job'[a] = Idle /\ execution' = execution
  BY Returned DEF IInv, ReadsInv, UndoClaim
<1>2. PICK t \in Tasks : t = job[a].task
  BY <1>1 DEF Reads
<1>3. CASE ClearWhere(t, job[a].version + 1)
  <2>1. /\ task'[t].status = "preempted" /\ task'[t].claimedBy = NoExecutor
        /\ \A u \in Tasks \ {t} : task'[u] = task[u]
    BY <1>2, <1>3, ClaimCleared DEF UndoClaim, IInv
  <2>2. task[t].status \in ClaimStatus /\ task[t].lease = job[a].lease
    BY <1>1, <1>2, <1>3 DEF Reads, ClearWhere, ClaimStatus
  <2>3. ClaimUndone(t)
    BY <1>1, <1>2, <2>2 DEF ClaimUndone, Idle
  <2> QED
    BY <1>1, <2>1, <2>2, <2>3 DEF StepShape, Move, Same
<1>4. CASE ~ClearWhere(t, job[a].version + 1)
  BY <1>1, <1>2, <1>4, UnchangedShape DEF UndoClaim, ClearAssignmentClaim
<1> QED
  BY <1>3, <1>4

\* Reporting is one move, of a row the reporter holds, or none.
LEMMA ReportWriteShape ==
  ASSUME IInv, NEW a \in Actors, ReportWrite(a)
  PROVE  StepShape
<1>1. Reads(a) /\ job[a].pc = "report" /\ execution' = execution
  BY DEF IInv, ReadsInv, ReportWrite
<1>2. PICK t \in Tasks : t = job[a].task
  BY <1>1 DEF Reads
<1>3. CASE StatusWhere(t, job[a].version)
  <2>1. /\ task'[t].status = "completed" /\ task'[t].claimedBy = task[t].claimedBy
        /\ \A u \in Tasks \ {t} : task'[u] = task[u]
    BY <1>2, <1>3, StatusWritten DEF ReportWrite, IInv, Status
  <2>2. task[t].status \in ClaimStatus
    BY <1>1, <1>2, <1>3 DEF Reads, StatusWhere
  <2> QED
    BY <1>1, <2>1, <2>2 DEF StepShape, Move, Same
<1>4. CASE ~StatusWhere(t, job[a].version)
  BY <1>1, <1>2, <1>4, UnchangedShape DEF ReportWrite, UpdateAssignmentStatus
<1> QED
  BY <1>3, <1>4

\* Recording an execution is one record of a completed row without one.
LEMMA InsertExecutionShape ==
  ASSUME IInv, NEW a \in Actors, InsertExecution(a)
  PROVE  StepShape
<1>1. Reads(a) /\ job[a].pc = "record" /\ task' = task
  BY DEF IInv, ReadsInv, InsertExecution
<1>2. PICK t \in Tasks : t = job[a].task
  BY <1>1 DEF Reads
<1>3. /\ task[t].status = "completed" /\ task[t].claimedBy = job[a].executor
      /\ execution[t] = << >> /\ task[t].claimedBy \in Executors
  BY <1>1, <1>2 DEF Reads, IInv, RowInv
<1>4. Append(execution[t], job[a].executor) = <<task[t].claimedBy>>
  BY <1>3
<1>5. Recorded(t)
  BY <1>2, <1>3, <1>4 DEF InsertExecution, Recorded
<1> QED
  BY <1>1, <1>5 DEF StepShape, Same

\* Preempting is one move, of an expired claim, or none.
LEMMA EnginePreemptShape ==
  ASSUME IInv, EnginePreempt
  PROVE  StepShape
<1>1. PICK s \in engine.todo : task' = ClearAssignmentClaim(s.task, s.version)
  BY DEF EnginePreempt
<1>2. Listed(s) /\ execution' = execution
  BY DEF IInv, EngineInv, EnginePreempt
<1>3. PICK t \in Tasks : t = s.task
  BY <1>2 DEF Listed
<1>4. CASE ClearWhere(t, s.version)
  <2>1. /\ task'[t].status = "preempted" /\ task'[t].claimedBy = NoExecutor
        /\ \A u \in Tasks \ {t} : task'[u] = task[u]
    BY <1>1, <1>3, <1>4, ClaimCleared DEF IInv
  <2>2. task[t].status \in ClaimStatus /\ task[t].left < 0
    BY <1>2, <1>3, <1>4 DEF Listed, ClearWhere, Expired
  <2> QED
    BY <1>2, <2>1, <2>2 DEF StepShape, Move, Same
<1>5. CASE ~ClearWhere(t, s.version)
  BY <1>1, <1>2, <1>3, <1>5, UnchangedShape DEF ClearAssignmentClaim
<1> QED
  BY <1>4, <1>5

\* Reassigning is one move, of a row that was waiting, or none.
LEMMA EngineReassignWriteShape ==
  ASSUME IInv, EngineReassignWrite
  PROVE  StepShape
<1>1. Waiting(engine.current) /\ execution' = execution
  BY DEF IInv, EngineInv, EngineReassignWrite, EngineAt
<1>2. PICK t \in Tasks : t = engine.current.task
  BY <1>1 DEF Waiting
<1>3. CASE StatusWhere(t, engine.current.version)
  <2>1. /\ task'[t].status = "assigned" /\ task'[t].claimedBy = task[t].claimedBy
        /\ \A u \in Tasks \ {t} : task'[u] = task[u]
    BY <1>2, <1>3, StatusWritten DEF EngineReassignWrite, IInv, Status
  <2>2. task[t].status \in {"created", "preempted"}
    BY <1>1, <1>2, <1>3 DEF Waiting, StatusWhere
  <2> QED
    BY <1>1, <2>1, <2>2 DEF StepShape, Move, Same
<1>4. CASE ~StatusWhere(t, engine.current.version)
  BY <1>1, <1>2, <1>4, UnchangedShape DEF EngineReassignWrite, UpdateAssignmentStatus
<1> QED
  BY <1>3, <1>4

\* The passing of time moves no row.
LEMMA TickShape ==
  ASSUME IInv, Tick
  PROVE  StepShape
<1>1. \A t \in Tasks : Same(t)
  BY DEF IInv, TypeOK, Row, Tick, Same
<1> QED
  BY <1>1 DEF StepShape, Tick

\* Every step has the shape.
LEMMA NextShape ==
  ASSUME IInv, [Next]_vars
  PROVE  StepShape
<1>1. CASE UNCHANGED vars
  BY <1>1, UnchangedShape DEF vars
<1>2. CASE Next
  <2>1. CASE UNCHANGED <<task, execution>>
    BY <2>1, UnchangedShape
  <2>2. CASE ~UNCHANGED <<task, execution>>
    <3>1. \/ \E t \in Tasks : Create(t)
          \/ \E a \in Actors : AssignWrite(a)
          \/ \E a \in Actors : ClaimWrite(a)
          \/ \E a \in Actors : UndoClaim(a)
          \/ \E a \in Actors : ReportWrite(a)
          \/ \E a \in Actors : InsertExecution(a)
          \/ EnginePreempt
          \/ EngineReassignWrite
          \/ Tick
      BY <1>2, <2>2, NextCases
         DEF AssignRead, HandlerClaim, ReportRead, CreateLease, ReleaseLease, WorkerPoll,
             WorkerNext, WorkerReport, EngineScan, EngineRevoke, EngineReassignRead,
             StatementFails, EngineStatementFails, SchedulerCrash, WorkerCrash
    <3> QED
      BY <3>1, CreateShape, AssignWriteShape, ClaimWriteShape, UndoClaimShape,
         ReportWriteShape, InsertExecutionShape, EnginePreemptShape,
         EngineReassignWriteShape, TickShape
  <2> QED
    BY <2>1, <2>2
<1> QED
  BY <1>1, <1>2

\* Every status change is an edge of the assignment state machine.
THEOREM MachineFollowed == Spec => StatusFollowsMachine
<1>1. ASSUME IInv, [Next]_vars PROVE StatusChangeIsEdge
  <2>1. StepShape
    BY <1>1, NextShape
  <2> QED
    BY <2>1 DEF StepShape, Same, Move, StatusChangeIsEdge, CanTransition, Transitions, ClaimStatus
<1> QED
  BY <1>1, Invariant, PTL DEF Spec, StatusFollowsMachine

\* A claim that has not expired is ended by its holder only.
THEOREM ClaimKept == Spec => LiveClaimKept
<1>1. ASSUME IInv, [Next]_vars PROVE ClaimKeptUnlessEnded
  <2> SUFFICES ASSUME NEW t \in Tasks, task[t].status \in ClaimStatus, task[t].left >= 0,
                      task'[t].version # task[t].version
               PROVE  \/ task'[t].status = "completed" /\ task'[t].claimedBy = task[t].claimedBy
                      \/ ClaimUndone(t)
    BY DEF ClaimKeptUnlessEnded
  <2>1. StepShape
    BY <1>1, NextShape
  <2>2. task[t].left \in Left /\ ~(task[t].left < 0)
    BY <1>1 DEF IInv, TypeOK, Row, Left
  <2>3. Move(t)
    BY <2>1 DEF StepShape, Same
  <2> QED
    BY <2>2, <2>3 DEF Move, ClaimStatus
<1> QED
  BY <1>1, Invariant, PTL DEF Spec, LiveClaimKept

-----------------------------------------------------------------------------
(* The refinement: each move of a row is a step of the pool.               *)

poolState == [t \in Tasks |-> PoolState(task[t].status)]
poolHolder == [t \in Tasks |-> task[t].claimedBy]

\* A step that moves no row leaves the pool as it is.
LEMMA SamePool ==
  ASSUME \A t \in Tasks : Same(t)
  PROVE  poolState' = poolState /\ poolHolder' = poolHolder
BY DEF Same, poolState, poolHolder

\* A move of one row changes the pool at that task alone.
LEMMA OthersSamePool ==
  ASSUME NEW t \in Tasks, \A u \in Tasks \ {t} : Same(u)
  PROVE  /\ poolState' = [poolState EXCEPT ![t] = PoolState(task'[t].status)]
         /\ poolHolder' = [poolHolder EXCEPT ![t] = task'[t].claimedBy]
<1>1. \A u \in Tasks \ {t} : PoolState(task'[u].status) = PoolState(task[u].status)
  BY DEF Same
<1>2. \A u \in Tasks \ {t} : task'[u].claimedBy = task[u].claimedBy
  BY DEF Same
<1> QED
  BY <1>1, <1>2 DEF poolState, poolHolder

\* A move of one row is a step of the pool.
LEMMA MovePool ==
  ASSUME NEW t \in Tasks, Move(t), \A u \in Tasks \ {t} : Same(u), execution' = execution
  PROVE  Pool!PoolNext
<1> DEFINE s == task'[t].status
           e == task'[t].claimedBy
<1>1. /\ poolState' = [poolState EXCEPT ![t] = PoolState(s)]
      /\ poolHolder' = [poolHolder EXCEPT ![t] = e]
  BY OthersSamePool
<1>2. poolState[t] = PoolState(task[t].status) /\ poolHolder[t] = task[t].claimedBy
  BY DEF poolState, poolHolder
<1>3. task'[t].claimedBy = task[t].claimedBy => poolHolder' = poolHolder
  BY <1>1, <1>2 DEF poolHolder
<1>4. CASE task[t].status = "absent" /\ s = "created" /\ e = task[t].claimedBy
  <2>1. Pool!Add(t)
    BY <1>1, <1>2, <1>3, <1>4 DEF Pool!Add, poolState, poolHolder, PoolState, ClaimStatus
  <2> QED
    BY <2>1 DEF Pool!PoolNext
<1>5. CASE task[t].status \in {"created", "preempted"} /\ s = "assigned" /\ e = task[t].claimedBy
  <2>1. Pool!Offer(t)
    BY <1>1, <1>2, <1>3, <1>5 DEF Pool!Offer, poolState, poolHolder, PoolState, ClaimStatus
  <2> QED
    BY <2>1 DEF Pool!PoolNext
<1>6. CASE task[t].status = "assigned" /\ s = "claimed" /\ e \in Executors
  <2>1. PICK x \in Executors : x = e
    BY <1>6
  <2>2. Pool!Take(t, x)
    BY <1>1, <1>2, <1>6, <2>1 DEF Pool!Take, poolState, poolHolder, PoolState, ClaimStatus
  <2> QED
    BY <2>2 DEF Pool!PoolNext
<1>7. CASE task[t].status \in ClaimStatus /\ s = "completed" /\ e = task[t].claimedBy
  <2>1. Pool!Finish(t)
    BY <1>1, <1>2, <1>3, <1>7 DEF Pool!Finish, poolState, poolHolder, PoolState, ClaimStatus
  <2> QED
    BY <2>1 DEF Pool!PoolNext
<1>8. CASE task[t].status \in ClaimStatus /\ s = "preempted" /\ e = NoExecutor
  <2>1. Pool!Lapse(t)
    BY <1>1, <1>2, <1>8 DEF Pool!Lapse, poolState, poolHolder, PoolState, ClaimStatus
  <2> QED
    BY <2>1 DEF Pool!PoolNext
<1> QED
  BY <1>4, <1>5, <1>6, <1>7, <1>8 DEF Move

\* An execution record is the pool's outcome.
LEMMA RecordedPool ==
  ASSUME NEW t \in Tasks, Recorded(t), \A u \in Tasks : Same(u)
  PROVE  Pool!PoolNext
<1>1. poolState' = poolState /\ poolHolder' = poolHolder
  BY SamePool
<1>2. poolState[t] = "done" /\ poolHolder[t] = task[t].claimedBy
  BY DEF poolState, poolHolder, Recorded, PoolState, ClaimStatus
<1>3. Pool!WriteOutcome(t)
  BY <1>1, <1>2 DEF Pool!WriteOutcome, Recorded, poolState, poolHolder
<1> QED
  BY <1>3 DEF Pool!PoolNext

\* The assignment service, with its versions, leases, crashes and lost races,
\* implements the pool of tasks, each held by at most one executor.
THEOREM Refinement == Spec => PoolSpec
<1>1. Init => Pool!PoolInit
  <2> SUFFICES ASSUME Init PROVE Pool!PoolInit
    OBVIOUS
  <2>1. PoolState("absent") = "absent"
    BY DEF PoolState, ClaimStatus
  <2>2. \A t \in Tasks : task[t].status = "absent" /\ task[t].claimedBy = NoExecutor
    BY DEF Init, NoRow
  <2> QED
    BY <2>1, <2>2 DEF Init, Pool!PoolInit
<1>2. ASSUME IInv, [Next]_vars PROVE [Pool!PoolNext]_Pool!poolVars
  <2>1. StepShape
    BY <1>2, NextShape
  <2>2. CASE execution' = execution /\ \A t \in Tasks : Same(t)
    BY <2>2, SamePool DEF Pool!poolVars, poolState, poolHolder
  <2>3. CASE \E t \in Tasks : /\ Move(t)
                              /\ \A u \in Tasks \ {t} : Same(u)
                              /\ execution' = execution
    <3>1. PICK t \in Tasks : /\ Move(t)
                             /\ \A u \in Tasks \ {t} : Same(u)
                             /\ execution' = execution
      BY <2>3
    <3>2. Pool!PoolNext
      BY <3>1, MovePool
    <3> QED
      BY <3>2
  <2>4. CASE \E t \in Tasks : Recorded(t) /\ \A u \in Tasks : Same(u)
    BY <2>4, RecordedPool
  <2> QED
    BY <2>1, <2>2, <2>3, <2>4 DEF StepShape
<1> QED
  BY <1>1, <1>2, Invariant, PTL DEF Spec, PoolSpec, Pool!PoolSpec
=============================================================================
