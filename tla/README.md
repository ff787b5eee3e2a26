# A formal model of the Embodied Fleet backend

TLA+ modules, TLC configurations and TLAPS proofs for the Go program in `src/`:
a backend that takes in missions for robots, reserves corridors and charging
energy for them, and hands out field work under leases.

Every definition is translated from the code. `PROJECT.json` maps each one to
the lines it stands for. It also lists the runs, the hazards behind the
properties, a mutant for every property, the findings and the theorems.

## 1. The system

Three processes share one SQLite database:

- `cmd/scheduler`: applies the schema and creates the accounts it is configured
  with, then runs the HTTP API and the engine, a ticker-driven loop.
- `cmd/executor`: a worker that polls for assignments, claims them and reports.
  It takes the database as it finds it.
- `cmd/migrate`: applies the schema, then exits.

The store offers a transaction (`InTx`), but no service opens one; only a
migration is a transaction. So **every
store call is an autocommitted statement**, atomic by itself and interleaved
with any other actor's. A service operation is a read, a check by a state
machine, and one or more writes `WHERE id = ? AND version = ?`. An operation
that finds zero affected rows has lost a race. That shape is what the models
are about: a step is a statement, a local copy may be stale, and an operation
may stop between any two of its statements.

### Components

| Component | State | Operations | What makes it hard | What makes it correct |
| --- | --- | --- | --- | --- |
| assignment service (`internal/assignment`) | `robot_assignments`, `task_leases`, `execution_records` | Create, Assign, Claim, Report, PreemptExpiredClaims, Reassign | two tables written by separate statements; reports race with preemption; the list of expired rows is stale; late reports | one outcome per task, under the claimant; leases agree with rows; a live claim is ended by its holder only; expired claims come back |
| worker (`internal/worker`) | its last poll | poll, claim, run, report | dies with a claim in hand | offered tasks are completed in the end |
| engine (`internal/engine`) | lists read in this tick, statistics | activate, escalate, preempt and reassign, advance | all it knows between two statements is in memory | overdue work is acted on in the end, across failed statements and crashes |
| quota service (`internal/quota`) | `quotas` | Reserve, Commit, Release | read, then guarded write, with retries under contention | the day's limit is passed by no more than clients release in the negative; every call ends |
| mission service (`internal/mission`) | `mission_requests`, `idempotency_records` | Submit (ten statements), Cancel, UpdatePriority, AdvanceQueued | retries and duplicates with one key; compensation when the insert fails; crash in the middle | energy accounted for to the unit; one mission per key and stored answers that are true; one legal life per mission |
| routing service (`internal/routing`) | `route_reservations`, `escalation_records` | Create, BatchAllocate, Release, ForceIntervene, ActivateEffective, EscalateOverdue | the engine works from a list while dispatchers write; deadlines compared as text | legal life per reservation; escalation records tell the truth, and none comes early but across zones; overdue is escalated |
| missionrun service (`internal/missionrun`) | `mission_runs` | Create, Assign, StartProgress, Complete (two writes), Cancel | two completions at once, failure between the writes | legal life; a completed run has the units its completer reported or had read |
| handover service (`internal/handover`) | `maintenance_handovers` | Create, Confirm, Reject | confirm and reject at once | decided once |
| auth service and middleware (`internal/auth`, `internal/server/auth_middleware.go`) | `users`, `sessions` | Login, Authenticate, Logout | logging out while requests are being admitted | nobody late is served; one farewell per session |
| HTTP server (`internal/server`) | none | one handler per route | a handler is one service call | the role of the route is demanded |
| audit (`internal/audit`) | `audit_logs` | Record, List | none: written last, errors ignored | no other state depends on it |
| database layer and commands (`internal/store/db.go`, `cmd`) | `schema_migrations`, the stage of each process | Open, Migrate, Bootstrap, Start, Stop, Shutdown | processes start together, are killed half way and started again; a signal at any moment | each migration once, in order; nobody serves an incomplete database; passwords stay; no work is cut off by a shutdown; a signal ends the process |
| listings (`buildListQuery`, `pagination.go`) | none | one SELECT and one COUNT per page | pages are read while rows come and change | what a walk misses or repeats is accounted for |
| configuration, errors, clock, logger | none of their own | | | |

The scheduler's requests and the engine share the rows and nothing else; the
worker calls the assignment service in its own process and shares the rows
through the database. There are no messages between processes.

## 2. The modules

| Module | Models |
| --- | --- |
| `TaskPool` | abstract: tasks held by one executor at a time, finished by the holder, outcome written once |
| `Assignment` | the assignment service, the worker and the engine's third stage |
| `AssignmentProofs` | theorems about `Assignment` |
| `Allowance` | abstract: units of a day reserved within a limit, used and given back, and what negative amounts recall and overdraw |
| `Quota` | the quota service and its table |
| `QuotaProofs` | theorems about `Quota` |
| `MissionIntake` | extends `Quota`: the mission service, idempotency records, the engine's fourth stage |
| `MissionIntakeProofs` | theorems about `MissionIntake` and the `Quota` it extends |
| `Lifecycle` | abstract: records born in one status that then move along the edges of a state machine |
| `Routing` | the routing service and the engine's first two stages |
| `RoutingProofs` | theorems about `Routing` |
| `Session`, `MissionRun`, `Handover` | those services and their tables |
| `Desk` | composes the three: requests admitted with a session, checked for a role, running one operation |
| `DeskProofs` | theorems about `Desk` |
| `Startup` | processes starting, failing and starting again: migrations, accounts, the executor's first polls |
| `StartupProofs` | theorems about `Startup` |
| `Shutdown` | one scheduler or executor from its signal channel to its end |
| `ShutdownProofs` | theorems about `Shutdown` |
| `Listing` | a client's walk through the pages of a list endpoint |
| `ListingProofs` | theorems about `Listing` |
| `MC*` | instances for TLC |

### How the modules correspond to the code

- A table is a function from ids to rows. `absent` (or version 0) is an id
  without a row.
- A service call in progress is a record of what it has read: `job`, `sub`,
  `edit`, `call`, `runCall`, `handoverCall`. The engine's is `engine` or
  `promote`. It is lost in a crash; the tables are not.
- A guarded UPDATE is an operator that returns the new table, or the table as
  it was when the WHERE clause matches nothing. The WHERE clause is an operator
  of its own (`StatusWhere`, `ReserveWhere`, `ReservationWhere`, ...).
- `Startup` and `Shutdown` are about control: `pc`, `main`, `handler` and `loop`
  name the statement a process or goroutine is at. In `Startup` the write lock of
  SQLite is a variable, for a migration holds it across statements.
- Reading a row, asking the state machine and refusing is one action; a call
  that is refused changes nothing, so only the accepted branch is an action.
- Failed statements (`StatementFails`, `EngineStatementFails`, `SubmitFails`,
  `RequestFails`, `Failed`) follow the error branch of the code, compensation
  included. `Crash` actions drop every local record.
- Time is what is left of each deadline (`Assignment`), the phase a
  reservation is in (`Routing`), or a flag that flips once (sessions, stored
  answers). No clock grows, so time needs no bound.
- Operators marked "Mutated" in a comment are not part of the model: they state
  a plausible bug next to the definition it would break, and `PROJECT.json`
  pairs each of them with the property that notices.

Histories that no code reads: `execution` (stands for `execution_records`, which
no operation reads back), `ledger` (units moved by the quota endpoints),
`backward` (units moved by commits and releases of a negative amount), `stranded`
(units reserved by submissions that ended without a mission and without giving
them back), `claimed` (units of the call that completed a run, reported or read),
`farewell` (requests told they logged out), the `late` flag of a request, `applied` (contents of
migrations committed), `met` (Stop found the loop), and `standing`, `left`,
`joined` and `repeated` (what happened to the filter during a walk, and how often
a row was delivered again).

In `Listing` a row is a number, its place in the order by time, so that a row
inserted late may come in anywhere; its place among the rows a filter matches
is how many of them are not behind it. A page is the set of rows in a window of
places.

## 3. What is checked

### Assignments

| Run | Question |
| --- | --- |
| `assignment_contention` | Two tasks, one HTTP request, one worker (whose id HTTP clients may use too), the engine, two leases, one crash or failed statement anywhere. Safety, refinement of `TaskPool`, and the invariant of the proofs |
| `assignment_progress` | One task under fair scheduling, with one fault: expired claims end, preempted tasks are offered again, offered and held tasks are completed |

Two leases let a task be claimed, preempted and claimed again, which is the
shortest history in which an old report, an old list entry or an old lease
meets a newer claim. Two tasks make the engine's list longer than one.
`LeaseTimeout` is 1: a claim is live, at its last second, or expired, and no
code tells more apart. One fault is enough to stop any call between any two of
its statements.

The two properties about a task's progress are stated for every number `n` of
faults that have struck so far and give up only if one more strikes. So a worker
may die with a task in hand, or its report may fail, and `AssignedIsCompleted`
still asks for the task to be completed, through expiry, preemption and
reassignment. Two things are not asked for, because the code does not do them,
and the formulas name them: the way back of a preempted task that no tick has on
its list (`OnTick`), and that of one whose claim is being undone (`Undoing`).
Both are described in section 5.

### Quota and mission intake

| Run | Question |
| --- | --- |
| `intake_contention` | Two submissions that may share a key, a quota endpoint that moves two units or takes one back, an expiring answer, one fault at any statement: the limit, the allowance, energy accounted for to the unit, one mission per key and truthful answers |
| `intake_queue` | An operator and the engine on the same missions, under fairness: the state machine is followed, submissions and quota calls end, queued missions leave the queue |
| `intake_one_key` | *violated*: a key whose stored answer is a rejection has no mission |

One quota row of two units: full after two missions, and above 80% then, so
accepted, queued and rejected all occur. `MaxRetries` and `MaxUpdates` stand
for 25 and the constant of the code: at 1 and 2 a caller can lose, retry and
give up. `MaxVersion` bounds the writes of a row by bounding when new requests
arrive; requests under way are never cut off.

Amounts of both signs are in the run, for `Commit` and `Release` check none.
`WithinLimit` says how far a row may leave its bounds: by the units that clients
moved with negative amounts, and by nothing that races, retries or failures do.
`EnergyAccounted` is an equality,

    Held(q) = SpokenFor(q) + ledger[q] + stranded[q]

so it is violated by a mission without its energy and as well by a reservation
made, kept or given back twice. `stranded` grows only when a submission ends
after its reservation: its process or a statement failed, or its compensation
matched no row.

`intake_one_key`: of two requests with one key the first is accepted and takes
the energy; the second finds none and stores a rejection as the key's answer.

### Routing

| Run | Question |
| --- | --- |
| `routing` | A dispatcher (single, batch, release, intervene with any target), the engine's two stages from stale lists, one fault: the lifecycle is implemented, the escalation trail is true and not ahead of time, the overdue is escalated |
| `routing_batch` | *violated*: when a batch ends, all of its reservations exist or none does |

Two reservations, one with its deadline in a zone behind the server's (it is
listed as overdue too early, for deadlines are compared as text; `InTime` speaks
of the other), and a third that names no mission for the batch to fail on.
`MaxChanges` bounds the writes of dispatchers, and `MaxVersion` the escalation,
which the code repeats on every tick without end. `MaxVersion` exceeds what
dispatchers reach, so the bound never keeps an effective or occupied row from
its escalation.

### Desk

| Run | Question |
| --- | --- |
| `desk` | A dispatcher's and an engineer's token, two requests, one run, one document; requests fail at any statement, any number of times: nobody late is served, at most one farewell, lifecycles implemented, a completed run has the units its completer reported or had read |

Two requests are enough for every race of two copies; `Units` 1 and 2 tell the
two completers apart, and 0 is a completion that skips the first write. A
failed second write leaves units on a run that is still in progress, and a later
completion that reports none finishes the run with them: `CompletersUnits` says
that such a call completes the run with the units it has read and no others.
What it excludes are units that come in after the call has read the run.

### Start and shutdown

| Run | Question |
| --- | --- |
| `startup` | A rolling update: a scheduler that knows one migration, a newer one that knows two, `migrate` and an executor, started, stopped and started again with other passwords, one of them killed or failing anywhere. Migrations once and in order, a complete database for whoever serves, passwords kept, somebody gets through, the executor recovers |
| `shutdown` | Either command, two requests, two signals at any step: the last tick or poll is finished before main returns, and a signal after the start ends the process |
| `shutdown_drain` | *violated*: a request that is open when a signal comes is answered before the process ends |

`startup` has two migrations because that is how many there are, and because one
more is enough for a gap; two accounts, for the first one to be created by one
scheduler and the second by another; one fault, which is enough to end any
process between any two of its statements. Deadlock is checked.

`applyMigration` looks outside its transaction whether a version is applied. Two
processes may both find that it is not, and both write its content, one after
the other. What keeps the database right is the primary key of
`schema_migrations`: the second one's record is refused, its content is rolled
back, and **the process gives up**: its start fails, and nothing in the
repository starts it again. `SomebodyMigrates` says that they cannot all give up
on each other.

`shutdown`: main waits for the listener (scheduler) or the root context
(executor), not for the loop. `WorkNotCut` holds because Stop comes first in the
goroutine of the signal and waits for the loop. It does not hold of requests:
main returns half a second after the listener is closed, while
`http.Server.Shutdown` still waits for them (`shutdown_drain`).

### Listings

| Run | Question |
| --- | --- |
| `listing` | A walk in pages of two through up to five rows, while rows are inserted anywhere in the order and three status changes bring rows under the filter or take them away: at most one row missed for each that left, at most one repeated for each that came |

Five rows are three pages, so a row may leave before, on and behind the page
the walk is at; three changes let two effects meet. A bound of "none missed"
would be wrong for any OFFSET pagination; the property says how wrong a walk can
be, and that insertions, which alone are frequent, make nobody miss a row.

### Deadlock and fairness

Every run but `startup` has `CHECK_DEADLOCK FALSE`: when the instance has used
its ids or versions and the faults are spent, or the process or walk is over,
the system may really stop, with all work done and nobody asking for more.

Fairness is weak and on single actors, with one exception:

- a goroutine in the middle of a call goes on (the Go runtime schedules
  runnable goroutines; SQLite's busy timeout bounds a wait);
- a process that has been started is scheduled (`Proceed`), main and the
  goroutine of the signal are (`MainNext`, `HandlerNext`);
- the worker's and the engine's tickers keep firing (`loop` in both);
- time passes (`Tick` of `Assignment`), and a tick or poll ends (`TickEnds`);
- strong: a `select` that finds the context done again and again takes that
  branch in the end, for Go picks at random among what is ready (`LoopEnds`).

Nobody has to start or restart a process or send a signal, no request has to be
answered, no client has to send anything, no reservation has to come due, no fault has to
occur, and nobody has to win a race: `SubmitEnds` and `CallEnds` hold because
the retries are counted. Properties that need that no further fault strikes say
so (`faults # n` as an alternative in `Assignment`, no faults left in `Startup`).

## 4. What is proved

`AssignmentProofs` proves for every set of tasks, executors, handlers, workers
and leases, every timeout, batch size and number of faults, from
`ConstantsAssumption` alone:

- `Invariant`: `Spec => []IInv`;
- `TypeCorrect`, `OutcomeOnce`, `LeasesAgree`: `TypeOK`, `OneOutcome`,
  `LeaseOutcome`;
- `MachineFollowed`, `ClaimKept`: `StatusFollowsMachine`, `LiveClaimKept`;
- `Refinement`: `Spec => PoolSpec`.

Why `IInv` is needed: none of the properties is inductive, for each depends on
what a call read some steps ago. `IInv` says what a version number is good for:
a copy is never ahead of its row, and **if its version is still the row's, what
the call has checked is still true** (`Reads` for requests and workers,
`Listed` and `Waiting` for the engine). Together with `RowInv` (the claim
columns are set exactly while the status says so, and name a lease made for
this very task), `CallsDiffer` (one claim inserts a lease, one report completes
a task) and `Cleared` (a lease to be revoked is named by no row), every write
either misses or finds what it expects. Each step's proof has one lemma per
statement; the properties of a step then follow from `IInv` before it.

`QuotaProofs` proves for every limit, every set of callers and every number of
retries, **for amounts of any sign**, from `QuotaAssumption` alone:

- `QuotaTypeCorrect`: `QuotaSpec => []QuotaTypeOK`;
- `LimitKept`: `QuotaSpec => [](QuotaTypeOK /\ WithinLimit)`;
- `QuotaRefinement`: `QuotaSpec => AllowanceSpec`.

`Commit` and `Release` do not check the sign of the amount, their handlers pass
the client's number on, and the guard `reserved_amount >= ?` holds of a negative
one: releasing -1 reserves a unit past the limit, committing -1 takes back a
unit that was used. The history `backward` counts such units, `WithinLimit`
bounds a row by them, and `Allowance` has them as steps of their own (`Recall`,
`Overdraw`). Where clients send no negative amount, `backward` stays 0 and
`WithinLimit` is the limit itself.

`MissionIntakeProofs` proves for all finite sets of missions and requests, every
set of keys, operators, rows and callers, and any energies, limits, retries and
faults, from `QuotaAssumption` and `IntakeAssumption`:

- `IntakeTypeCorrect`, `EnergyAlwaysAccounted`, `AnswersAreTruthful`: `TypeOK`,
  `EnergyAccounted`, `AnswersTruthful`;
- `MissionMachineFollowed`: `MissionFollowsMachine`;
- `IntakeLimitKept` and `IntakeRefinement`: `WithinLimit` and `AllowanceSpec`
  of the rows that missions and endpoints share, for amounts of any sign.

`IInv` adds what makes these inductive. `SubKnows`: a request at its INSERT has
decided to accept or to queue, and one behind it has a mission under its own key,
which is why a stored acceptance is true. `CopyKnows`: a copy is never ahead of
its row, and while its version is the row's, what the state machine was asked
still holds. `Unborn`: a row that was never inserted is empty, so that creating
it moves nothing. The energy argument is about `Own`, the units of a row that
the endpoints did not move: they are those of the missions of the row, of the
requests between reservation and mission or compensation, and the stranded ones. A request comes to be spoken
for in the step that puts its units on the row, hands them to its mission in the
step that inserts it, and ceases to be in the step that gives them back **or
fails to**, which strands them (see section 5). Spoken-for units are pairs
of an id and a number, so a sum of energies is the size of a finite set, and
adding or removing one record adds or removes its pairs: the argument needs no
induction over sums. It needs the sets of missions and requests to be finite,
which they are in the code: ids are uuids, requests are goroutines.

`DeskProofs` proves for every set of tokens, requests, runs, documents and
reported units, every assignment of roles and any number of failures, from
`SessionAssumption`, `RunAssumption` and `DeskAssumption`:

- `DeskTypeCorrect`: `DeskSpec => []DeskTypeOK`;
- `Completers`, `Farewell`, `LateRefused`: `CompletersUnits`, `OneFarewell`,
  `LateIsRefused`;
- `RunRefinement`, `HandoverRefinement`: `DeskSpec` implements `RunLifecycle`
  and `HandoverLifecycle`.

`DInv` has one part per service. `SInv`: a request that came late stands at its
first look at a session that is still over, and a session somebody was thanked
for leaving is revoked. `RInv`: a call whose version is the row's may take the
edge it asked for, and, before its second write, finds in the row the units it
wrote or, having skipped the first, read; that is what makes the second write of
`Complete` safe. `HInv`: a
decision whose version is the row's finds it pending. `Busy`: a request runs
one operation and only while it is served, so what the three services do in one
step falls into steps of their own, each proved to keep its part.

`RoutingProofs` proves for every set of reservations and dispatchers, whichever
deadlines are in another zone, and any number of faults, from
`RoutingAssumption`:

- `RoutingTypeCorrect`, `TrailTruthful`: `TypeOK`, `EscalationTrail`;
- `ReservationRefinement`: `Spec` implements `ReservationLifecycle`.

`RInv` is the argument of `Assignment` in small. A copy whose version is still
the row's has the row's level, and the row's status is still what the list was
selected by (`Listed`) or what the state machine was asked about (`Asked`);
so the engine, which never asks the state machine, moves along its edges all
the same, and writes a level that is one above the row's. Ids of a batch are
free until they are inserted (`Reserved`). While a record is about to be
inserted the row is one level above the copy it was listed with, and every
record so far is below (`EngineInv`), so the new one is the highest. A fault
that loses a record makes one more of them missing, and one more fault. `Due`
is why no level comes early: what the engine has listed was overdue, for a
deadline in the server's zone that means past, and past it stays.

`StartupProofs` proves for every set of processes, every assignment of commands
and of known migrations, every number of migrations, accounts and faults, from
`StartupAssumption`:

- `StartupTypeCorrect`, `Migrated`, `Ready`: `StartupTypeOK`,
  `MigratedOnceInOrder`, `ReadyWhenRunning`;
- `Kept`: `PasswordsKept`.

`StartupInv` adds to these what a process knows from having come as far as it
has (`Knows`): all versions below the one it is at are recorded, the one it is
about to commit is not, and behind the migrations all it knows are recorded.
Nothing that is known is ever lost, for records and accounts are only added;
that the version about to be committed is not recorded stays so because its
process holds the lock. `Moves` states what a step of one process may do to
what the others know, so each action is proved for its own process only.

`ShutdownProofs` proves for every set of requests and number of signals, from
`ShutdownAssumption`:

- `ShutdownTypeCorrect`: `ShutdownTypeOK`;
- `NothingCut`: `WorkNotCut`.

`Passing` says why main cannot pass the loop: it leaves only when the server is
closing or the root context cancelled, both come after Stop, and a Stop that met
the loop has waited for it, because `running` was set before the launch.

`ListingProofs` proves for every set of rows, page size and number of status
changes, from `ListingAssumption`:

- `ListingTypeCorrect`, `WalkIsAccounted`: `ListingTypeOK`, `WalkAccounted`.

`Fair(D, o, k)` is the invariant of a client that was shown the rows `D`, will
ask from offset `o` on and has had `k` surplus deliveries: the rows it has passed
by, standing and not in `D`, are at most as many as left the filter, and `k` plus
the rows of `D` still ahead of it at most as many as joined. A row that leaves
moves those behind it up by one place, so that at most one slips past the
offset; a row that joins pushes at most one back over it, or is itself ahead, and
never both (`RowLeaves`, `RowJoins`). A SELECT takes a window of places: the rows
of `D` in it were ahead, the others are not passed by. Between the SELECT and the
COUNT the page may be answered or fail, so `IInv` keeps `Fair` for both: for
the offset of the page with what was shown before, and for the next one with the
page counted as shown. When there is no next page the offset has reached the
last row (`PagesCover`, the rounding up of `TotalPages`), and `Fair` is
`WalkAccounted`.

Out of the prover's reach, and left to TLC:

- liveness under fairness, and `ENABLED`;
- induction over data: what a recursive definition computes for every input;
- RECURSIVE operators (there are none here).

Every invariant and every safety property of a passing run is a theorem. Only
model-checked are the liveness properties: `ExpiredClaimEnds`,
`PreemptedIsReassigned`, `AssignedIsCompleted`, `SubmitEnds`, `CallEnds`,
`QueuedLeaves`, `OverdueIsEscalated`, `SomebodyMigrates`, `ExecutorRecovers` and
`SignalEndsProcess`.

## 5. What is not modelled, and what was met on the way

- Corridors: the code checks no overlap, so a corridor has no state.
- The responsible party of a reservation. The comment at
  `internal/routing/service.go:229-232` says "a new responsible party takes
  over", but the party is never written back.
- Counts returned for statistics. `ActivateEffective` returns 0 whenever it
  activated something (`internal/routing/service.go:325`), and the engine counts
  0; what happens to the rows is right.
- `queue_position`, wait estimates, formatting, decoding, audit records. The
  quota report and the export are single reads; the export
  (`internal/server/handlers_quotas.go:191`) asks for the first page of each
  table only.
- Page numbers of any client. Each service's `List` calls `Validate(100)`
  (`internal/mission/service.go:221`, for one), which bounds the page size but
  not the page; the lists of audit logs, executions and escalations are not
  validated at all. With a huge page `(page - 1) * page_size` overflows, and
  SQLite answers a negative OFFSET with the first page. The walk of `Listing`
  follows `has_next` and never gets there.
- A cancelled mission keeps its energy, and an accepted one is never scheduled:
  no code does either, and no comment promises it.
- `CleanExpiredIdempotency`, `CleanupExpired`, `ListExpiredLeases`,
  `UpdateQueuePosition` and `GetMissionByIdempotencyKey` have no callers.
- Data races on statistics (`internal/engine/engine.go:108`,
  `internal/worker/worker.go:95`): counters that are only displayed.
- The rest of the configuration. `Validate` lets an executor interval of 0 pass,
  with which the worker's ticker panics.
- Two migration files with one number (the second would be skipped).
- Deadlines of claims are compared as text too. Scheduler and executor are
  assumed to run in one zone; for reservations, whose deadlines come from
  clients, the comparison is modelled (`Behind`).

The models also showed, without a run of their own here:

- **An active lease that nothing ends.** `Claim` writes the row, then the lease
  (`internal/assignment/service.go:174`). If the claim runs out and is preempted
  in between, `RevokeLease` finds no lease, and the lease is inserted as active
  afterwards. `ListExpiredLeases` has no caller. In `Assignment`,
  `lease[l].status = "active" ~> lease[l].status # "active"` is violated without
  any fault.
- **A preempted task that is forgotten.** The tasks to reassign are a slice of
  one tick (`internal/engine/engine.go:141`); a crash or a failed `Reassign`
  leaves the task preempted, and no later tick looks for it. The same becomes of a
  task whose claim was undone because its lease could not be inserted
  (`internal/assignment/service.go:176`). `PreemptedIsReassigned` therefore
  speaks, after a fault, of the tasks that the tick under way has on its list;
  without `OnTick` it is violated with one fault.
- **Energy lost in a compensation.** When the unique key refuses a mission,
  `Submit` releases its energy under `q.Version+1`, although `q` was read after
  the reservation (`internal/mission/service.go:129,166`): the UPDATE matches
  nothing, and the units stay reserved for nobody. In `MissionIntake`,
  `stranded[q] = 0` is violated without any fault.
- **A retry that is refused.** When a mission's answer was not stored (a crash
  before `internal/mission/service.go:203`) or has outlived its TTL
  (`internal/mission/service.go:399`), a retry with the same key runs through:
  it reserves energy again, the unique key refuses its mission, and the client
  gets an error instead of the mission it has. `AnswersTruthful` (one mission
  per key) and `EnergyAccounted` hold all the same.
- **Units of a completion that failed.** When the second write of `Complete`
  fails, the units of the first stay on the run
  (`internal/missionrun/service.go:176-192`). A later completion with
  `actual_units` 0 skips the first write, so the run is completed with the
  units of the earlier call, which had been answered with an error.
- **Negative amounts.** `Commit` and `Release` accept them
  (`internal/quota/service.go:157-202`); section 4 says what they do to a row.
- **A reservation escalated before its deadline**, when the deadline was written
  with another offset than the server's
  (`internal/store/window_repo.go:129`). In `Routing`,
  `[][window'[w].level # window[w].level => phase[w] = "past"]_vars` is violated
  with `Behind` not empty; of the other reservations `EscalationTrail` says it.
- **A signal during the start.** Before `httpServer` is assigned, `Shutdown`
  stops nothing and cancels the root context: the engine ends as soon as it is
  started and the server serves on without it, deaf to further signals. Between
  `Start`'s `CompareAndSwap` and the assignment of `cancel`
  (`internal/engine/engine.go:67-70`), `Stop` finds `running` set and nothing to
  cancel, and `wg.Wait` waits for a loop nobody has told to end. Hence the last
  conjunct on the left of `SignalEndsProcess`.

## 6. Plan

Done: the core (`Assignment`, `Quota`, with proofs), then `MissionIntake`,
`Routing`, `Desk` and their runs, and the proofs of `Desk`; then `Startup`,
`Shutdown` and `Listing`, with the proofs of the first two; then the proofs of
`Routing`; then those of `MissionIntake` and of `Listing`.

Next, the models:

1. `Tick`: the four stages of the engine's tick in order, over one database
   with missions and their reservations, to check what one stage's failure
   does to the others.
2. Two executors and a configured id shared by two processes.
3. The party and the statistics of routing, if a property can be told from the
   code's own tests.

Next, the proofs: those of the modules above when they exist. Of the modules
there are, every invariant and every safety property a passing run checks is a
theorem (section 4 says which and what is left to TLC: the liveness
properties).
