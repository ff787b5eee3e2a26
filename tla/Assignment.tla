----------------------------- MODULE Assignment -----------------------------
(***************************************************************************)
(* Field assignments: the assignment service and its two tables            *)
(* (robot_assignments, task_leases) and the execution records, as used by  *)
(* HTTP handlers and the engine in the scheduler process and by executor   *)
(* worker processes.                                                       *)
(*                                                                         *)
(* Every store call is one autocommitted SQL statement and one atomic step *)
(* here; a service operation is a read of the row followed by guarded      *)
(* writes, and any other actor may run between two of them.  Writes to a   *)
(* task row are guarded by the version the operation read.                 *)
(*                                                                         *)
(* The clock is represented by what is left of each deadline: `left' is    *)
(* claim_expires_at minus now, in the one-second units the columns have,   *)
(* and stops at -1 (expired: claim_expires_at < now).  Nothing in the code *)
(* looks at a claim's deadline in another way, so time needs no bound.     *)
(***************************************************************************)
EXTENDS Integers, Sequences, FiniteSets

CONSTANTS
  Tasks,         \* ids of robot assignments
  Executors,     \* executor ids: usernames and configured worker ids
  Handlers,      \* request goroutines of the scheduler process
  Workers,       \* executor processes
  WorkerId,      \* WorkerId[w]: the executor id w is configured with
  Leases,        \* lease uuids: the bound on the number of successful claims
  LeaseTimeout,  \* seconds a claim lasts
  BatchSize,     \* claimable tasks a worker takes from one poll
  Rank,          \* Rank[t]: position of t by priority, then creation time
  MaxFaults,     \* bound on crashes and failed statements
  NoTask, NoExecutor, NoLease   \* the empty columns

Actors == Handlers \union Workers
NoDeadline == LeaseTimeout + 1     \* claim_expires_at IS NULL: never expired
Left == -1 .. NoDeadline

ASSUME ConstantsAssumption ==
  /\ LeaseTimeout \in Nat
  /\ BatchSize \in Nat \ {0}
  /\ MaxFaults \in Nat
  /\ Rank \in [Tasks -> Nat]
  /\ WorkerId \in [Workers -> Executors]
  /\ Handlers \intersect Workers = {}
  /\ NoTask \notin Tasks
  /\ NoExecutor \notin Executors
  /\ NoLease \notin Leases

VARIABLES
  task,      \* robot_assignments, by id
  lease,     \* task_leases, by id
  execution, \* execution[t]: executors of the execution records of t, in order
  job,       \* job[a]: the service call actor a is in, with what it has read
  batch,     \* batch[w]: tasks of worker w's last poll it has not tried yet
  engine,    \* the preemption part of the engine's tick
  faults     \* crashes and failed statements so far

vars == <<task, lease, execution, job, batch, engine, faults>>

-----------------------------------------------------------------------------
(* The state machine of an assignment.                                     *)

Status == {"created", "assigned", "claimed", "in_progress", "completed",
           "preempted", "cancelled"}

Transitions ==
  {<<"created", "assigned">>, <<"created", "cancelled">>,
   <<"assigned", "claimed">>, <<"assigned", "preempted">>,
   <<"assigned", "cancelled">>,
   <<"claimed", "completed">>, <<"claimed", "in_progress">>,
   <<"claimed", "preempted">>,
   <<"in_progress", "completed">>, <<"in_progress", "preempted">>,
   <<"preempted", "assigned">>, <<"preempted", "cancelled">>}

CanTransition(src, dst) == <<src, dst>> \in Transitions

ClaimStatus == {"claimed", "in_progress"}

-----------------------------------------------------------------------------
(* Rows and local records.                                                 *)

Row == [status : Status \union {"absent"}, version : Nat,
        claimedBy : Executors \union {NoExecutor},
        lease : Leases \union {NoLease}, left : Left]

NoRow == [status |-> "absent", version |-> 0, claimedBy |-> NoExecutor,
          lease |-> NoLease, left |-> NoDeadline]

\* "unissued" and "issued" are uuids without a row: not generated yet, and
\* generated by a claim that has not inserted (or never inserts) the lease.
LeaseRow == [status : {"unissued", "issued", "active", "released", "revoked"},
             task : Tasks \union {NoTask}]

Pc == {"idle", "assign", "claim", "createLease", "undo", "execute",
       "report", "release", "record"}

Job == [pc : Pc, task : Tasks \union {NoTask}, version : Nat,
        executor : Executors \union {NoExecutor},
        lease : Leases \union {NoLease}, left : Left]

Idle == [pc |-> "idle", task |-> NoTask, version |-> 0,
         executor |-> NoExecutor, lease |-> NoLease, left |-> NoDeadline]

Snapshot == [task : Tasks \union {NoTask}, version : Nat,
             lease : Leases \union {NoLease}]

NoSnapshot == [task |-> NoTask, version |-> 0, lease |-> NoLease]

\* todo: rows listed as expired, not yet processed; preempted: the results to
\* reassign afterwards; current: the row the engine is in the middle of.
Engine == [pc : {"loop", "revoke", "reassign"}, todo : SUBSET Snapshot,
           preempted : SUBSET Tasks, current : Snapshot]

EngineIdle == [pc |-> "loop", todo |-> {}, preempted |-> {},
               current |-> NoSnapshot]

Init ==
  /\ task = [t \in Tasks |-> NoRow]
  /\ lease = [l \in Leases |-> [status |-> "unissued", task |-> NoTask]]
  /\ execution = [t \in Tasks |-> << >>]
  /\ job = [a \in Actors |-> Idle]
  /\ batch = [w \in Workers |-> {}]
  /\ engine = EngineIdle
  /\ faults = 0

-----------------------------------------------------------------------------
(* SQL statements.  A guarded UPDATE leaves the table as it is when its    *)
(* WHERE clause matches no row; the caller sees zero affected rows.        *)

\* Mutated WHERE clause: WHERE id = ?, without AND version = ?.
AnyVersion(t, v) == task[t].status # "absent"

StatusWhere(t, v) == task[t].version = v
ClaimWhere(t, v) == task[t].version = v
ClearWhere(t, v) == task[t].version = v

UpdateAssignmentStatus(t, s, v) ==
  IF StatusWhere(t, v)
  THEN [task EXCEPT ![t].status = s, ![t].version = @ + 1]
  ELSE task

UpdateAssignmentClaim(t, e, l, left) ==
  [task EXCEPT ![t] = [status |-> "claimed", version |-> @.version + 1,
                       claimedBy |-> e, lease |-> l, left |-> left]]

\* Mutated UPDATE: the status alone, the claim's columns are left behind.
ClaimLeftBehind(t, v) ==
  IF ClearWhere(t, v)
  THEN [task EXCEPT ![t].status = "preempted", ![t].version = @ + 1]
  ELSE task

ClearAssignmentClaim(t, v) ==
  IF ClearWhere(t, v)
  THEN [task EXCEPT ![t] = [status |-> "preempted", version |-> @.version + 1,
                            claimedBy |-> NoExecutor, lease |-> NoLease,
                            left |-> NoDeadline]]
  ELSE task

\* Mutated listing: only status = 'in_progress'.
InProgressExpired == {t \in Tasks : task[t].status = "in_progress" /\ task[t].left < 0}

\* Mutated listing: the deadline itself already counts as expired.
ExpiredAtDeadline == {t \in Tasks : task[t].status \in ClaimStatus /\ task[t].left <= 0}

ListExpiredClaims == {t \in Tasks : task[t].status \in ClaimStatus /\ task[t].left < 0}

\* Mutated listing: status = 'created'.
CreatedTasks == {t \in Tasks : task[t].status = "created"}

AssignedTasks == {t \in Tasks : task[t].status = "assigned"}

\* The first BatchSize assigned tasks, by priority and creation time.
ListClaimableTasks ==
  {t \in AssignedTasks :
     Cardinality({u \in AssignedTasks : Rank[u] < Rank[t]}) < BatchSize}

\* Mutated UPDATE: the assignment's new status is written as the lease's.
EndLeaseWrongEnum(l, status) ==
  IF l # NoLease /\ lease[l].status = "active"
  THEN [lease EXCEPT ![l].status = "completed"]
  ELSE lease

\* GetLease finds a row once it is inserted.  ReleaseLease and RevokeLease
\* change it only while it is active, and nothing makes a lease active again,
\* so reading the lease and updating it are one step.
EndLease(l, status) ==
  IF l # NoLease /\ lease[l].status = "active"
  THEN [lease EXCEPT ![l].status = status]
  ELSE lease

-----------------------------------------------------------------------------
(* Service operations, on behalf of actor a.                               *)

Return(a) == job' = [job EXCEPT ![a] = Idle]

Begin(a, pc, t, e) ==
  job' = [job EXCEPT ![a] =
            [pc |-> pc, task |-> t, version |-> task[t].version, executor |-> e,
             lease |-> task[t].lease, left |-> LeaseTimeout]]

Proceed(a, pc) == job' = [job EXCEPT ![a].pc = pc]

\* A request for a new assignment: one INSERT.
Create(t) ==
  /\ task[t].status = "absent"
  /\ task' = [task EXCEPT ![t].status = "created", ![t].version = 1]
  /\ UNCHANGED <<lease, execution, job, batch, engine, faults>>

\* Assign reads the row; the state machine must allow `assigned'.
AssignRead(h, t) ==
  /\ job[h].pc = "idle"
  /\ CanTransition(task[t].status, "assigned")
  /\ Begin(h, "assign", t, NoExecutor)
  /\ UNCHANGED <<task, lease, execution, batch, engine, faults>>

AssignWrite(h) ==
  /\ job[h].pc = "assign"
  /\ task' = UpdateAssignmentStatus(job[h].task, "assigned", job[h].version)
  /\ Return(h)
  /\ UNCHANGED <<lease, execution, batch, engine, faults>>

\* Claim reads the row, which must be assigned, and fixes the new deadline.
ClaimRead(a, t, e) ==
  /\ job[a].pc = "idle"
  /\ task[t].status = "assigned"
  /\ Begin(a, "claim", t, e)

\* The claim is written under a fresh lease id, or lost to another writer.
ClaimWrite(a) ==
  /\ job[a].pc = "claim"
  /\ LET t == job[a].task IN
     \/ /\ ClaimWhere(t, job[a].version)
        /\ \E l \in Leases :
             /\ lease[l].status = "unissued"
             /\ lease' = [lease EXCEPT ![l] = [status |-> "issued", task |-> t]]
             /\ task' = UpdateAssignmentClaim(t, job[a].executor, l, job[a].left)
             /\ job' = [job EXCEPT ![a].pc = "createLease", ![a].lease = l]
     \/ /\ ~ClaimWhere(t, job[a].version)
        /\ Return(a)
        /\ UNCHANGED <<task, lease>>
  /\ UNCHANGED <<execution, batch, engine, faults>>

\* The lease row is inserted; an HTTP claim returns, a worker goes on to report.
CreateLease(a) ==
  /\ job[a].pc = "createLease"
  /\ lease' = [lease EXCEPT ![job[a].lease].status = "active"]
  /\ IF a \in Workers THEN Proceed(a, "execute") ELSE Return(a)
  /\ UNCHANGED <<task, execution, batch, engine, faults>>

\* The INSERT failed: the claim is cleared, if the row is still as it was left.
UndoClaim(a) ==
  /\ job[a].pc = "undo"
  /\ task' = ClearAssignmentClaim(job[a].task, job[a].version + 1)
  /\ Return(a)
  /\ UNCHANGED <<lease, execution, batch, engine, faults>>

\* Mutated check: any executor may report.
AnyReporter(t, e) == CanTransition(task[t].status, "completed")

MayReport(t, e) ==
  /\ task[t].claimedBy = e
  /\ CanTransition(task[t].status, "completed")

\* An HTTP report reads the row and checks the claimant.
ReportRead(h, t, e) ==
  /\ job[h].pc = "idle"
  /\ MayReport(t, e)
  /\ Begin(h, "report", t, e)
  /\ UNCHANGED <<task, lease, execution, batch, engine, faults>>

\* A worker reports right after its claim; a refused report ends its call.
WorkerReport(w) ==
  /\ job[w].pc = "execute"
  /\ IF MayReport(job[w].task, WorkerId[w])
     THEN Begin(w, "report", job[w].task, WorkerId[w])
     ELSE Return(w)
  /\ UNCHANGED <<task, lease, execution, batch, engine, faults>>

ReportWrite(a) ==
  /\ job[a].pc = "report"
  /\ task' = UpdateAssignmentStatus(job[a].task, "completed", job[a].version)
  /\ IF StatusWhere(job[a].task, job[a].version)
     THEN Proceed(a, "release")
     ELSE Return(a)
  /\ UNCHANGED <<lease, execution, batch, engine, faults>>

ReleaseLease(a) ==
  /\ job[a].pc = "release"
  /\ lease' = EndLease(job[a].lease, "released")
  /\ Proceed(a, "record")
  /\ UNCHANGED <<task, execution, batch, engine, faults>>

InsertExecution(a) ==
  /\ job[a].pc = "record"
  /\ execution' = [execution EXCEPT ![job[a].task] = Append(@, job[a].executor)]
  /\ Return(a)
  /\ UNCHANGED <<task, lease, batch, engine, faults>>

HandlerClaim(h, t, e) ==
  /\ ClaimRead(h, t, e)
  /\ UNCHANGED <<task, lease, execution, batch, engine, faults>>

-----------------------------------------------------------------------------
(* The executor worker: poll, then claim and report one task after another. *)

WorkerPoll(w) ==
  /\ job[w].pc = "idle" /\ batch[w] = {}
  /\ ListClaimableTasks # {}
  /\ batch' = [batch EXCEPT ![w] = ListClaimableTasks]
  /\ UNCHANGED <<task, lease, execution, job, engine, faults>>

\* The next task of the batch is claimed, or passed over if no longer assigned.
WorkerNext(w) ==
  /\ job[w].pc = "idle"
  /\ \E t \in batch[w] :
       /\ \A u \in batch[w] : Rank[t] <= Rank[u]
       /\ batch' = [batch EXCEPT ![w] = @ \ {t}]
       /\ IF task[t].status = "assigned"
          THEN ClaimRead(w, t, WorkerId[w])
          ELSE UNCHANGED job
  /\ UNCHANGED <<task, lease, execution, engine, faults>>

-----------------------------------------------------------------------------
(* The engine's tick, step 3: preempt expired claims, then reassign.       *)

EngineAt(pc) == engine.pc = pc

\* PreemptExpiredClaims lists the rows once and works from the copy.
EngineScan ==
  /\ EngineAt("loop") /\ engine.todo = {} /\ engine.preempted = {}
  /\ ListExpiredClaims # {}
  /\ engine' = [engine EXCEPT !.todo =
       {[task |-> t, version |-> task[t].version, lease |-> task[t].lease] :
          t \in ListExpiredClaims}]
  /\ UNCHANGED <<task, lease, execution, job, batch, faults>>

\* preemptOne: a row that changed since the listing is left alone.
EnginePreempt ==
  /\ EngineAt("loop")
  /\ \E s \in engine.todo :
       /\ task' = ClearAssignmentClaim(s.task, s.version)
       /\ engine' = IF ClearWhere(s.task, s.version)
                    THEN [engine EXCEPT !.pc = "revoke", !.todo = @ \ {s}, !.current = s]
                    ELSE [engine EXCEPT !.todo = @ \ {s}]
  /\ UNCHANGED <<lease, execution, job, batch, faults>>

EngineRevoke ==
  /\ EngineAt("revoke")
  /\ lease' = EndLease(engine.current.lease, "revoked")
  /\ engine' = [engine EXCEPT !.pc = "loop", !.current = NoSnapshot,
                              !.preempted = @ \union {engine.current.task}]
  /\ UNCHANGED <<task, execution, job, batch, faults>>

\* Mutated loop: the results are dropped, nothing is reassigned.
ResultsDropped ==
  /\ EngineAt("loop") /\ engine.todo = {} /\ engine.preempted # {}
  /\ engine' = EngineIdle
  /\ UNCHANGED <<task, lease, execution, job, batch, faults>>

\* Reassign reads one preempted row; if another writer has moved it on, the
\* error is logged and the next one is tried.
EngineReassignRead ==
  /\ EngineAt("loop") /\ engine.todo = {}
  /\ \E t \in engine.preempted :
       engine' =
         IF CanTransition(task[t].status, "assigned")
         THEN [engine EXCEPT !.pc = "reassign", !.preempted = @ \ {t},
                 !.current = [task |-> t, version |-> task[t].version, lease |-> NoLease]]
         ELSE [engine EXCEPT !.preempted = @ \ {t}]
  /\ UNCHANGED <<task, lease, execution, job, batch, faults>>

EngineReassignWrite ==
  /\ EngineAt("reassign")
  /\ task' = UpdateAssignmentStatus(engine.current.task, "assigned", engine.current.version)
  /\ engine' = [engine EXCEPT !.pc = "loop", !.current = NoSnapshot]
  /\ UNCHANGED <<lease, execution, job, batch, faults>>

-----------------------------------------------------------------------------
(* Time, failed statements and crashes.                                    *)

Age(left) == IF left \in 0 .. LeaseTimeout THEN left - 1 ELSE left

\* One second passes, for stored deadlines and for those not yet written.
Tick ==
  /\ task' = [t \in Tasks |->
       IF task[t].status \in ClaimStatus
       THEN [task[t] EXCEPT !.left = Age(@)] ELSE task[t]]
  /\ job' = [a \in Actors |->
       IF job[a].pc = "claim" THEN [job[a] EXCEPT !.left = Age(@)] ELSE job[a]]
  /\ <<task, job>>' # <<task, job>>
  /\ UNCHANGED <<lease, execution, batch, engine, faults>>

Fault == faults < MaxFaults /\ faults' = faults + 1

\* A statement fails (the database is busy, the disk is full).  Claim undoes
\* its claim, Report ignores errors after the status is written, the rest
\* return the error.
StatementFails(a) ==
  /\ job[a].pc # "idle"
  /\ Fault
  /\ CASE job[a].pc = "createLease" -> Proceed(a, "undo")
       [] job[a].pc = "release" -> Proceed(a, "record")
       [] OTHER -> Return(a)
  /\ UNCHANGED <<task, lease, execution, batch, engine>>

\* The engine's statement fails: the row is skipped; a failed revocation is
\* ignored and the row still counts as preempted.
EngineStatementFails ==
  /\ Fault
  /\ \/ /\ EngineAt("loop")
        /\ \E s \in engine.todo : engine' = [engine EXCEPT !.todo = @ \ {s}]
     \/ /\ EngineAt("revoke")
        /\ engine' = [engine EXCEPT !.pc = "loop", !.current = NoSnapshot,
                                    !.preempted = @ \union {engine.current.task}]
     \/ /\ EngineAt("loop") /\ engine.todo = {}
        /\ \E t \in engine.preempted : engine' = [engine EXCEPT !.preempted = @ \ {t}]
     \/ /\ EngineAt("reassign")
        /\ engine' = [engine EXCEPT !.pc = "loop", !.current = NoSnapshot]
  /\ UNCHANGED <<task, lease, execution, job, batch>>

\* The scheduler process dies with its requests and its engine, and restarts.
SchedulerCrash ==
  /\ Fault
  /\ job' = [a \in Actors |-> IF a \in Handlers THEN Idle ELSE job[a]]
  /\ engine' = EngineIdle
  /\ UNCHANGED <<task, lease, execution, batch>>

\* A worker process dies and restarts (a Stop between two tasks is the case
\* where no call is in progress).
WorkerCrash(w) ==
  /\ Fault
  /\ Return(w)
  /\ batch' = [batch EXCEPT ![w] = {}]
  /\ UNCHANGED <<task, lease, execution, engine>>

-----------------------------------------------------------------------------

Request(h) ==
  \E t \in Tasks :
    \/ AssignRead(h, t)
    \/ \E e \in Executors : HandlerClaim(h, t, e)
    \/ \E e \in Executors : ReportRead(h, t, e)

\* What an actor in the middle of a call does next.
Continue(a) ==
  \/ AssignWrite(a)
  \/ ClaimWrite(a)
  \/ CreateLease(a)
  \/ UndoClaim(a)
  \/ ReportWrite(a)
  \/ ReleaseLease(a)
  \/ InsertExecution(a)

WorkerLoop(w) ==
  \/ WorkerPoll(w)
  \/ WorkerNext(w)
  \/ WorkerReport(w)

EngineStep ==
  \/ EngineScan
  \/ EnginePreempt
  \/ EngineRevoke
  \/ EngineReassignRead
  \/ EngineReassignWrite

Failure ==
  \/ \E a \in Actors : StatementFails(a)
  \/ EngineStatementFails
  \/ SchedulerCrash
  \/ \E w \in Workers : WorkerCrash(w)

Next ==
  \/ \E t \in Tasks : Create(t)
  \/ \E h \in Handlers : Request(h)
  \/ \E a \in Actors : Continue(a)
  \/ \E w \in Workers : WorkerLoop(w)
  \/ EngineStep
  \/ Tick
  \/ Failure

Spec == Init /\ [][Next]_vars

\* The runtime keeps running goroutines that can run, the worker's and the
\* engine's tickers keep firing, and time passes.  Nothing makes a client send
\* a request, and nothing makes a fault happen.
FairSpec ==
  /\ Spec
  /\ \A a \in Actors : WF_vars(Continue(a))
  /\ \A w \in Workers : WF_vars(WorkerLoop(w))
  /\ WF_vars(EngineStep)
  /\ WF_vars(Tick)

-----------------------------------------------------------------------------
(* Properties.                                                             *)

\* Rows, leases, records and every local copy stay within their domains.
TypeOK ==
  /\ task \in [Tasks -> Row]
  /\ lease \in [Leases -> LeaseRow]
  /\ execution \in [Tasks -> Seq(Executors)]
  /\ job \in [Actors -> Job]
  /\ batch \in [Workers -> SUBSET Tasks]
  /\ engine \in Engine
  /\ faults \in 0 .. MaxFaults

\* However reports, preemptions and re-claims of a task interleave, its
\* outcome is recorded at most once, only when the task is completed, and
\* under the executor whose claim the completed row carries (Report).
OneOutcome ==
  \A t \in Tasks :
    execution[t] # << >> =>
      /\ task[t].status = "completed"
      /\ execution[t] = <<task[t].claimedBy>>

\* task_leases never contradicts robot_assignments, although the two tables
\* are written by separate statements: a released lease is the one its
\* completed task was reported under, a revoked one is named by no task row.
LeaseOutcome ==
  \A l \in Leases :
    /\ lease[l].status = "released" =>
         /\ lease[l].task \in Tasks
         /\ task[lease[l].task].status = "completed"
         /\ task[lease[l].task].lease = l
    /\ lease[l].status = "revoked" => \A t \in Tasks : task[t].lease # l

\* The claimant of task t, in the middle of Claim, takes its claim back.
ClaimUndone(t) ==
  \E a \in Actors :
    /\ job[a].pc = "undo" /\ job'[a].pc = "idle"
    /\ job[a].task = t /\ job[a].lease = task[t].lease

ClaimKeptUnlessEnded ==
  \A t \in Tasks :
    /\ task[t].status \in ClaimStatus
    /\ task[t].left >= 0
    /\ task'[t].version # task[t].version
    => \/ task'[t].status = "completed" /\ task'[t].claimedBy = task[t].claimedBy
       \/ ClaimUndone(t)

\* A claim that has not expired is ended by its holder only: the row changes
\* by a report of the claimant or by the claimant undoing its own claim, never
\* by a preemption, another claim or an assignment working from an old copy.
LiveClaimKept == [][ClaimKeptUnlessEnded]_vars

StatusChangeIsEdge ==
  \A t \in Tasks :
    /\ task[t].status # "absent"
    /\ task'[t].status # task[t].status
    => CanTransition(task[t].status, task'[t].status)

\* Every status change in the table is an edge of the state machine, although
\* the check is made on a copy read before the write and two of the updates
\* (claim and clear) do not consult the machine at all.
StatusFollowsMachine == [][StatusChangeIsEdge]_vars

\* The service implements the abstract pool of TaskPool: created and preempted
\* tasks wait, assigned ones are offered, claimed ones are held.
PoolState(s) ==
  IF s \in {"created", "preempted"} THEN "waiting"
  ELSE IF s = "assigned" THEN "offered"
  ELSE IF s \in ClaimStatus THEN "held"
  ELSE IF s = "completed" THEN "done" ELSE s

Pool == INSTANCE TaskPool WITH
          state   <- [t \in Tasks |-> PoolState(task[t].status)],
          holder  <- [t \in Tasks |-> task[t].claimedBy],
          outcome <- execution

PoolSpec == Pool!PoolSpec

Expired(t) == task[t].status \in ClaimStatus /\ task[t].left < 0

\* A claim whose lease has run out does not stay: the engine preempts it,
\* even if the claimant or the scheduler crashed, unless a late report
\* completes it first.
ExpiredClaimEnds == \A t \in Tasks : Expired(t) ~> ~Expired(t)

\* The tick under way will reassign t: it is listed, it is about to be, or it
\* was read for it and has not changed since.
OnTick(t) ==
  \/ t \in engine.preempted
  \/ engine.pc = "revoke" /\ engine.current.task = t
  \/ /\ engine.pc = "reassign"
     /\ engine.current.task = t
     /\ engine.current.version = task[t].version

\* A preempted task goes back to assigned without anybody asking for it: every
\* one as long as no fault has struck and, after n faults, every one that the
\* tick under way still has to reassign, unless one more strikes.
PreemptedIsReassigned ==
  \A t \in Tasks, n \in 0 .. MaxFaults :
    (task[t].status = "preempted" /\ faults = n /\ (n = 0 \/ OnTick(t)))
      ~> (task[t].status # "preempted" \/ faults # n)

Exhausted == \A l \in Leases : lease[l].status # "unissued"

\* The insert of the lease of t's claim failed, and the claim is to be undone.
\* That leaves t preempted, and no tick knows of it.
Undoing(t) == \E a \in Actors : job[a].pc = "undo" /\ job[a].task = t

\* A task that was made claimable is worked to completion, whatever HTTP
\* clients claim and abandon in between, unless one more fault strikes or the
\* instance runs out of lease ids, which bounds the number of claims.  That
\* holds after n faults too: a task that is held by a worker which died, or
\* whose report failed, comes back through expiry and reassignment.
AssignedIsCompleted ==
  \A t \in Tasks, n \in 0 .. MaxFaults :
    (task[t].status \in {"assigned"} \union ClaimStatus /\ ~Undoing(t) /\ faults = n)
      ~> \/ task[t].status = "completed"
         \/ task[t].status = "assigned" /\ Exhausted
         \/ faults # n

-----------------------------------------------------------------------------
(* The inductive invariant: what a version number guarantees.  A copy whose *)
(* version is still the row's tells the truth about the row, and versions  *)
(* of copies are never ahead of the row's.                                 *)

\* The claim columns are set from the claim on, until the claim is cleared,
\* and name a lease generated for this very task.
RowInv ==
  \A t \in Tasks :
    /\ task[t].status = "absent" => task[t].version = 0
    /\ task[t].status \in ClaimStatus \union {"completed"} =>
         /\ task[t].claimedBy \in Executors
         /\ task[t].lease \in Leases
         /\ lease[task[t].lease].task = t
         /\ lease[task[t].lease].status # "unissued"
    /\ task[t].status \notin ClaimStatus \union {"completed"} =>
         task[t].claimedBy = NoExecutor /\ task[t].lease = NoLease

\* What a service call relies on between its read and its guarded write.
Reads(a) ==
  LET j == job[a]  r == task[job[a].task] IN
    /\ j.pc # "idle" => j.task \in Tasks
    /\ j.pc = "assign" =>
         /\ j.version <= r.version
         /\ j.version = r.version => r.status \in {"created", "preempted"}
    /\ j.pc = "claim" =>
         /\ j.executor \in Executors
         /\ j.version <= r.version
         /\ j.version = r.version => r.status = "assigned"
    /\ j.pc \in {"createLease", "undo"} =>
         /\ j.lease \in Leases
         /\ lease[j.lease] = [status |-> "issued", task |-> j.task]
         /\ j.version + 1 <= r.version
         /\ j.version + 1 = r.version => r.status = "claimed" /\ r.lease = j.lease
    /\ j.pc = "report" =>
         /\ j.executor \in Executors
         /\ j.version <= r.version
         /\ j.version = r.version =>
              /\ r.status \in ClaimStatus
              /\ r.claimedBy = j.executor
              /\ r.lease = j.lease
    /\ j.pc \in {"release", "record"} =>
         /\ r.status = "completed"
         /\ r.claimedBy = j.executor
         /\ r.lease = j.lease
         /\ execution[j.task] = << >>

ReadsInv == \A a \in Actors : Reads(a)

Claiming(a) == job[a].pc \in {"createLease", "undo"}
Reporting(a) == job[a].pc \in {"release", "record"}

\* One claim inserts a lease; one report completes a task.
CallsDiffer ==
  \A a, b \in Actors :
    a # b =>
      /\ Claiming(a) /\ Claiming(b) => job[a].lease # job[b].lease
      /\ Reporting(a) /\ Reporting(b) => job[a].task # job[b].task

\* What the engine relies on between its listing and its writes: a listed row
\* of the same version is still the expired claim, a cleared lease stays
\* unnamed until it is revoked, a row read for reassignment is still waiting.
Listed(s) ==
  /\ s.task \in Tasks
  /\ s.lease \in Leases
  /\ lease[s.lease].task = s.task
  /\ lease[s.lease].status # "unissued"
  /\ s.version <= task[s.task].version
  /\ s.version = task[s.task].version =>
       Expired(s.task) /\ task[s.task].lease = s.lease

Cleared(s) ==
  /\ s.task \in Tasks
  /\ s.lease \in Leases
  /\ lease[s.lease].status # "unissued"
  /\ \A t \in Tasks : task[t].lease # s.lease

Waiting(s) ==
  /\ s.task \in Tasks
  /\ s.version <= task[s.task].version
  /\ s.version = task[s.task].version =>
       task[s.task].status \in {"created", "preempted"}

EngineInv ==
  /\ \A s \in engine.todo : Listed(s)
  /\ engine.pc = "revoke" => Cleared(engine.current)
  /\ engine.pc = "reassign" => Waiting(engine.current)

IInv ==
  /\ TypeOK
  /\ RowInv
  /\ LeaseOutcome
  /\ ReadsInv
  /\ CallsDiffer
  /\ EngineInv
  /\ OneOutcome
=============================================================================
