------------------------------ MODULE Startup ------------------------------
(***************************************************************************)
(* The start of the processes that share one database file.  A scheduler   *)
(* and a migrate command create the table of applied migrations, apply     *)
(* each file of their migrations directory that is not recorded in it, and *)
(* then a scheduler creates the accounts it is configured with.  An        *)
(* executor opens the database as it finds it.                             *)
(*                                                                         *)
(* A migration is looked up by an autocommitted SELECT; its content and    *)
(* its record are written in one transaction, which holds SQLite's write   *)
(* lock from its first write to its end.  Readers never wait (WAL), a      *)
(* writer waits for the lock and gives up after the busy timeout.          *)
(***************************************************************************)
EXTENDS Integers

CONSTANTS
  Processes,  \* operating system processes
  Kind,       \* Kind[p]: the command p runs
  Known,      \* Known[p]: the migrations directory of p holds 1 .. Known[p]
  Latest,     \* the newest migration
  LastAccount, \* accounts a scheduler creates (three)
  Passwords,  \* passwords an account may be configured with
  Nobody,     \* no process, no password
  MaxFaults   \* kills and failed statements

ASSUME StartupAssumption ==
  /\ Kind \in [Processes -> {"scheduler", "migrate", "executor"}]
  /\ Latest \in Nat
  /\ LastAccount \in Nat \ {0}
  /\ Known \in [Processes -> 0 .. Latest]
  /\ Nobody \notin Processes
  /\ Nobody \notin Passwords
  /\ MaxFaults \in Nat

VARIABLES
  tracked,   \* schema_migrations exists
  ledger,    \* versions recorded in schema_migrations
  applied,   \* history: how often the content of a version was committed
  lock,      \* the process that is writing
  users,     \* password an account was created with
  pc,        \* how far a process has come
  at,        \* the version or account a process is at
  password,  \* the password in the environment of a process
  polled,    \* how the last poll of an executor ended
  faults     \* faults that may still strike

vars == <<tracked, ledger, applied, lock, users, pc, at, password, polled, faults>>
database == <<tracked, ledger, applied, users>>

\* Sorted by number.  Files are numbered without gaps.
Versions == 1 .. Latest

\* dispatcher, engineer, auditor: in the order they are created.
Accounts == 1 .. LastAccount

\* 001 creates robot_assignments, 002 creates users.
AssignmentsVersion == 1
UsersVersion == 2

\* Not running: not started, killed or exited with an error; or exited with 0.
Ended == {"down", "ok"}
Starting == {"create", "check", "exec", "record", "commit", "report", "find", "insert"}

StartupInit ==
  /\ tracked = FALSE
  /\ ledger = {}
  /\ applied = [v \in Versions |-> 0]
  /\ lock = Nobody
  /\ users = [a \in Accounts |-> Nobody]
  /\ pc = [p \in Processes |-> "down"]
  /\ at = [p \in Processes |-> 1]
  /\ password = [p \in Processes |-> Nobody]
  /\ polled = [p \in Processes |-> "not yet"]
  /\ faults \in 0 .. MaxFaults

GoTo(p, label) == pc' = [pc EXCEPT ![p] = label]
GoToAt(p, label, n) == GoTo(p, label) /\ at' = [at EXCEPT ![p] = n]

\* Mutated error path: no rollback.
StillLocked(p) == lock

\* A transaction that does not commit leaves nothing behind.
Unlocked(p) == IF lock = p THEN Nobody ELSE lock

\* The process exits with an error, or is killed.
End(p, label) ==
  /\ GoTo(p, label)
  /\ lock' = Unlocked(p)
  /\ at' = [at EXCEPT ![p] = 1]
  /\ password' = [password EXCEPT ![p] = Nobody]
  /\ polled' = [polled EXCEPT ![p] = "not yet"]
  /\ UNCHANGED database

-----------------------------------------------------------------------------
(* Opening.                                                                *)

\* The environment may have changed since the last start.
FromEnv(p) ==
  IF Kind[p] = "scheduler"
  THEN \E w \in Passwords : password' = [password EXCEPT ![p] = w]
  ELSE UNCHANGED password

\* OpenDB, which executors use, runs no migrations.
Opened(p) == IF Kind[p] = "executor" THEN "running" ELSE "create"

Boot(p) ==
  /\ pc[p] \in Ended
  /\ FromEnv(p)
  /\ GoToAt(p, Opened(p), 1)
  /\ UNCHANGED <<database, lock, polled, faults>>

\* Mutated loop: the last file is not reached.
MoreButOne(p, n) == n + 1 < Known[p]

More(p, n) == n < Known[p]

\* The step after migration n.  After the last one, migrate lists what is
\* applied, and the scheduler creates its accounts.
AfterVersion(p, n) ==
  IF More(p, n) THEN GoToAt(p, "check", n + 1)
  ELSE IF Kind[p] = "migrate" THEN GoToAt(p, "report", 1)
  ELSE GoToAt(p, "find", 1)

\* CREATE TABLE IF NOT EXISTS writes, and waits, only if there is no table.
CreateTracking(p) ==
  /\ pc[p] = "create"
  /\ tracked \/ lock = Nobody
  /\ tracked' = TRUE
  /\ AfterVersion(p, 0)
  /\ UNCHANGED <<ledger, applied, users, lock, password, polled, faults>>

-----------------------------------------------------------------------------
(* Migrations.                                                             *)

Check(p) ==
  /\ pc[p] = "check"
  /\ IF at[p] \in ledger THEN AfterVersion(p, at[p]) ELSE GoTo(p, "exec") /\ UNCHANGED at
  /\ UNCHANGED <<database, lock, password, polled, faults>>

\* Begin, and the first write of the file's content.  A transaction whose
\* snapshot has been overtaken by another commit of this version is refused
\* here or at its INSERT, with the same effect; only the latter is modelled.
Exec(p) ==
  /\ pc[p] = "exec"
  /\ lock = Nobody
  /\ lock' = p
  /\ GoTo(p, "record")
  /\ UNCHANGED <<database, at, password, polled, faults>>

\* Mutated statement: INSERT OR IGNORE.
NeverRecorded(v) == FALSE

\* The primary key of schema_migrations.
Recorded(v) == v \in ledger

Record(p) ==
  /\ pc[p] = "record"
  /\ IF Recorded(at[p]) THEN End(p, "down")
     ELSE GoTo(p, "commit") /\ UNCHANGED <<database, lock, at, password, polled>>
  /\ UNCHANGED faults

\* Mutated transaction: the content is written, its record is lost.
Unrecorded(v) == ledger

WithRecord(v) == ledger \union {v}

Commit(p) ==
  /\ pc[p] = "commit"
  /\ applied' = [applied EXCEPT ![at[p]] = @ + 1]
  /\ ledger' = WithRecord(at[p])
  /\ lock' = Nobody
  /\ AfterVersion(p, at[p])
  /\ UNCHANGED <<tracked, users, password, polled, faults>>

\* SELECT version FROM schema_migrations, then exit 0.
Report(p) ==
  /\ pc[p] = "report"
  /\ End(p, "ok")
  /\ UNCHANGED faults

-----------------------------------------------------------------------------
(* Accounts, and the running process.                                      *)

\* Accounts done, the password is no longer needed.
AfterAccount(p) ==
  IF at[p] < LastAccount THEN GoToAt(p, "find", at[p] + 1) /\ UNCHANGED password
  ELSE GoToAt(p, "running", 1) /\ password' = [password EXCEPT ![p] = Nobody]

\* GetUserByUsername: no table, a row, or no row.
Find(p) ==
  /\ pc[p] = "find"
  /\ IF UsersVersion \notin ledger THEN End(p, "down")
     ELSE /\ IF users[at[p]] # Nobody THEN AfterAccount(p)
             ELSE GoTo(p, "insert") /\ UNCHANGED <<at, password>>
          /\ UNCHANGED <<database, lock, polled>>
  /\ UNCHANGED faults

\* Mutated statement: INSERT OR REPLACE.
Replaced(a, w) == w

\* INSERT OR IGNORE.
Inserted(a, w) == IF users[a] = Nobody THEN w ELSE users[a]

Insert(p) ==
  /\ pc[p] = "insert"
  /\ lock = Nobody
  /\ users' = [users EXCEPT ![at[p]] = Inserted(at[p], password[p])]
  /\ AfterAccount(p)
  /\ UNCHANGED <<tracked, ledger, applied, lock, polled, faults>>

\* Mutated loop: a poll that fails is the last one.
OnlyOnce(p) == pc[p] = "running" /\ polled[p] = "not yet"

Polling(p) == pc[p] = "running"

\* A poll reads robot_assignments; a failed one is counted and repeated.
Poll(p) ==
  /\ Kind[p] = "executor"
  /\ Polling(p)
  /\ polled' = [polled EXCEPT ![p] = IF AssignmentsVersion \in ledger THEN "fine" ELSE "failed"]
  /\ UNCHANGED <<database, lock, pc, at, password, faults>>

Stop(p) ==
  /\ pc[p] = "running"
  /\ End(p, "down")
  /\ UNCHANGED faults

-----------------------------------------------------------------------------
(* Failures.                                                               *)

\* The statements that write.
Writes(p) == pc[p] \in {"exec", "insert"} \/ (pc[p] = "create" /\ ~tracked)

\* Somebody has held the lock for the whole of the busy timeout.
BusyTimeout(p) ==
  /\ Writes(p)
  /\ lock # Nobody
  /\ faults > 0
  /\ faults' = faults - 1
  /\ End(p, "down")

\* The first statement of 001 finds its table and only reads; SQLite refuses
\* at once to let a reader write beside another writer.
BusyAtOnce(p) ==
  /\ pc[p] = "exec"
  /\ at[p] = 1
  /\ lock # Nobody
  /\ End(p, "down")
  /\ UNCHANGED faults

StatementFails(p) ==
  /\ pc[p] \in Starting
  /\ faults > 0
  /\ faults' = faults - 1
  /\ End(p, "down")

Killed(p) ==
  /\ pc[p] \notin Ended
  /\ faults > 0
  /\ faults' = faults - 1
  /\ End(p, "down")

-----------------------------------------------------------------------------

\* What the process does by itself once it has been started.
Proceed(p) ==
  \/ CreateTracking(p) \/ Check(p) \/ Exec(p) \/ Record(p) \/ Commit(p) \/ Report(p)
  \/ Find(p) \/ Insert(p) \/ Poll(p) \/ BusyAtOnce(p)

StartupNext ==
  \E p \in Processes :
    \/ Boot(p) \/ Stop(p)
    \/ Proceed(p)
    \/ BusyTimeout(p) \/ StatementFails(p) \/ Killed(p)

StartupSpec == StartupInit /\ [][StartupNext]_vars

\* A process that runs is scheduled.
FairStartupSpec == StartupSpec /\ \A p \in Processes : WF_vars(Proceed(p))

-----------------------------------------------------------------------------
(* Properties.                                                             *)

Domains ==
  /\ tracked \in BOOLEAN
  /\ ledger \subseteq Versions
  /\ applied \in [Versions -> Nat]
  /\ lock \in Processes \union {Nobody}
  /\ users \in [Accounts -> Passwords \union {Nobody}]
  /\ pc \in [Processes -> Ended \union Starting \union {"running"}]
  /\ at \in [Processes -> Nat]
  /\ password \in [Processes -> Passwords \union {Nobody}]
  /\ polled \in [Processes -> {"not yet", "failed", "fine"}]
  /\ faults \in 0 .. MaxFaults

\* The lock is held inside a transaction, and only there.
Placed(p) ==
  /\ pc[p] \in {"check", "exec", "record", "commit"} => at[p] \in 1 .. Known[p]
  /\ pc[p] \in {"find", "insert"} => at[p] \in Accounts
  /\ pc[p] \in Starting /\ Kind[p] = "scheduler" => password[p] # Nobody
  /\ pc[p] \in {"record", "commit"} <=> lock = p

StartupTypeOK == Domains /\ \A p \in Processes : Placed(p)

\* However many processes start at once, and wherever one is killed, a
\* migration's content is in the database exactly if it is recorded, it got
\* there once, and all migrations before it are there.  (applyMigration checks
\* outside the transaction that writes.)
MigratedOnceInOrder ==
  \A v \in Versions :
    /\ applied[v] = IF v \in ledger THEN 1 ELSE 0
    /\ v \in ledger => \A u \in 1 .. v : u \in ledger

\* A scheduler that serves finds every table and account it relies on, and a
\* migrate command that reported success has left no migration out.
ReadyWhenRunning ==
  \A p \in Processes :
    /\ Kind[p] = "scheduler" /\ pc[p] = "running" =>
         1 .. Known[p] \subseteq ledger /\ \A a \in Accounts : users[a] # Nobody
    /\ Kind[p] = "migrate" /\ pc[p] = "ok" => 1 .. Known[p] \subseteq ledger

\* No start, of this scheduler again or of another one with other passwords,
\* changes the password of an account that exists.
PasswordsKept ==
  [][\A a \in Accounts : users[a] # Nobody => users'[a] = users[a]]_vars

\* Of the processes that migrate at once all but one may give up, but not all
\* of them: when nothing strikes, what they all know gets applied.
SomebodyMigrates ==
  (faults = 0 /\ \E p \in Processes : pc[p] \in Starting)
  ~> {v \in Versions : \A q \in Processes : Kind[q] # "executor" => v <= Known[q]} \subseteq ledger

\* An executor started before the tables exist works once they do.
ExecutorRecovers ==
  \A p \in Processes :
    (Kind[p] = "executor" /\ pc[p] = "running" /\ AssignmentsVersion \in ledger)
    ~> (polled[p] = "fine" \/ pc[p] \in Ended)
=============================================================================
