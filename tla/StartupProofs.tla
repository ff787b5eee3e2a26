--------------------------- MODULE StartupProofs ---------------------------
(* Theorems about Startup, for any number of processes, migrations, accounts *)
(* and faults.                                                               *)
EXTENDS Startup, TLAPS

\* Which steps a command has.
Role(p) ==
  /\ pc[p] \in {"report", "ok"} => Kind[p] = "migrate"
  /\ pc[p] \in {"find", "insert"} => Kind[p] = "scheduler"
  /\ pc[p] = "running" => Kind[p] # "migrate"
  /\ pc[p] \in Starting => Kind[p] # "executor"

\* What a process knows from having come as far as it has.
Serves(p) == pc[p] = "running" /\ Kind[p] = "scheduler"

Migrating(p) == pc[p] \in {"check", "exec", "record", "commit"}

Knows(p) ==
  /\ Migrating(p) => \A v \in Versions : v < at[p] => v \in ledger
  /\ pc[p] = "commit" => at[p] \notin ledger
  /\ pc[p] \in {"report", "find", "insert", "ok"} \/ Serves(p) => 
       \A v \in Versions : v <= Known[p] => v \in ledger
  /\ pc[p] \in {"find", "insert"} => \A a \in Accounts : a < at[p] => users[a] # Nobody
  /\ Serves(p) => \A a \in Accounts : users[a] # Nobody

\* A version is committed by the process that holds the lock, so what the
\* process found in its transaction is still so when it commits.
StartupInv ==
  /\ StartupTypeOK
  /\ MigratedOnceInOrder
  /\ \A p \in Processes : Role(p) /\ Knows(p)

\* Initially nothing runs and nothing is known.
LEMMA InvInit == StartupInit => StartupInv
<1> SUFFICES ASSUME StartupInit PROVE StartupInv
  OBVIOUS
<1> USE StartupAssumption DEF StartupInit
<1>1. Domains
  BY DEF Domains, Ended, Versions
<1>2. \A p \in Processes : pc[p] = "down" /\ lock # p
  OBVIOUS
<1>3. \A p \in Processes : Placed(p) /\ Role(p) /\ Knows(p)
  BY <1>2 DEF Placed, Role, Knows, Starting, Serves, Migrating
<1>4. MigratedOnceInOrder
  BY DEF MigratedOnceInOrder
<1> QED
  BY <1>1, <1>3, <1>4 DEF StartupInv, StartupTypeOK

\* What is recorded and created stays so: a process that does not move keeps
\* what it knows, as long as nobody else records a version while it commits.
LEMMA OthersKeep ==
  ASSUME StartupInv, NEW q \in Processes,
         pc'[q] = pc[q], at'[q] = at[q], password'[q] = password[q],
         lock' = q <=> lock = q,
         ledger \subseteq ledger',
         pc[q] = "commit" => ledger' = ledger,
         \A a \in Accounts : users[a] # Nobody => users'[a] # Nobody
  PROVE  Placed(q)' /\ Role(q)' /\ Knows(q)'
<1>1. Placed(q) /\ Role(q) /\ Knows(q)
  BY DEF StartupInv, StartupTypeOK
<1>2. Placed(q)'
  BY <1>1 DEF Placed
<1>3. Role(q)'
  BY <1>1 DEF Role
<1>4. Knows(q)'
  BY <1>1 DEF Knows, Serves, Migrating
<1> QED
  BY <1>2, <1>3, <1>4

\* A process that ends gives the lock back and knows nothing; migrate ends well
\* only after its last step.
LEMMA EndKeeps ==
  ASSUME StartupInv, NEW p \in Processes, NEW label \in Ended, End(p, label),
         label = "ok" => pc[p] = "report", faults' \in 0 .. MaxFaults
  PROVE  StartupInv'
<1> USE StartupAssumption DEF End, GoTo, database
<1>0. Domains /\ Role(p) /\ Knows(p)
  BY DEF StartupInv, StartupTypeOK
<1>1. Domains'
  BY <1>0 DEF Domains, Unlocked
<1>2. pc'[p] = label /\ lock' # p
  BY <1>0 DEF Domains, Unlocked
<1>3. Placed(p)'
  BY <1>2 DEF Placed, Ended, Starting
<1>4. Role(p)' /\ Knows(p)'
  BY <1>0, <1>2 DEF Role, Knows, Ended, Starting, Serves, Migrating
<1>5. ASSUME NEW q \in Processes \ {p} PROVE Placed(q)' /\ Role(q)' /\ Knows(q)'
  <2>1. pc'[q] = pc[q] /\ at'[q] = at[q] /\ password'[q] = password[q]
    BY <1>0 DEF Domains
  <2>2. lock' = q <=> lock = q
    BY <1>0 DEF Domains, Unlocked
  <2> QED
    BY <2>1, <2>2, OthersKeep
<1>6. MigratedOnceInOrder'
  BY DEF MigratedOnceInOrder, StartupInv
<1> QED
  BY <1>1, <1>3, <1>4, <1>5, <1>6 DEF StartupInv, StartupTypeOK

\* A step of p, in terms of p alone.
Moves(p) ==
  /\ \A q \in Processes \ {p} : pc'[q] = pc[q] /\ at'[q] = at[q] /\ password'[q] = password[q]
  /\ \A q \in Processes \ {p} : lock' = q <=> lock = q
  /\ ledger \subseteq ledger'
  /\ \A q \in Processes \ {p} : pc[q] = "commit" => ledger' = ledger
  /\ \A a \in Accounts : users[a] # Nobody => users'[a] # Nobody

LEMMA MoveKeeps ==
  ASSUME StartupInv, NEW p \in Processes, Moves(p), Domains', MigratedOnceInOrder',
         Placed(p)', Role(p)', Knows(p)'
  PROVE  StartupInv'
<1>1. ASSUME NEW q \in Processes \ {p} PROVE Placed(q)' /\ Role(q)' /\ Knows(q)'
  BY OthersKeep DEF Moves
<1> QED
  BY <1>1 DEF StartupInv, StartupTypeOK

Labels == Ended \union Starting \union {"running"}

\* Jumping moves the control of p alone.
LEMMA Jump ==
  ASSUME Domains, NEW p \in Processes, NEW label \in Labels, NEW n \in Nat, GoToAt(p, label, n)
  PROVE  /\ pc'[p] = label /\ at'[p] = n
         /\ pc' \in [Processes -> Labels] /\ at' \in [Processes -> Nat]
         /\ \A q \in Processes \ {p} : pc'[q] = pc[q] /\ at'[q] = at[q]
BY DEF Domains, Labels, GoToAt, GoTo

\* Past migration n, the process is at the next one or knows them all.
LEMMA AfterVersionKnows ==
  ASSUME StartupInv, NEW p \in Processes, NEW n \in 0 .. Known[p], AfterVersion(p, n),
         Kind[p] # "executor", lock' # p, password' = password,
         Kind[p] = "scheduler" => password[p] # Nobody,
         \A v \in Versions : v <= n => v \in ledger'
  PROVE  /\ Placed(p)' /\ Role(p)' /\ Knows(p)'
         /\ pc' \in [Processes -> Labels] /\ at' \in [Processes -> Nat]
         /\ \A q \in Processes \ {p} : pc'[q] = pc[q] /\ at'[q] = at[q]
<1> USE StartupAssumption
<1>0. Domains
  BY DEF StartupInv, StartupTypeOK
<1> DEFINE label == IF n < Known[p] THEN "check"
                    ELSE IF Kind[p] = "migrate" THEN "report" ELSE "find"
           m == IF n < Known[p] THEN n + 1 ELSE 1
<1>1. GoToAt(p, label, m)
  BY DEF AfterVersion, More
<1>2. label \in Labels /\ m \in Nat
  BY DEF Labels, Starting
<1>3. /\ pc'[p] = label /\ at'[p] = m
      /\ pc' \in [Processes -> Labels] /\ at' \in [Processes -> Nat]
      /\ \A q \in Processes \ {p} : pc'[q] = pc[q] /\ at'[q] = at[q]
  BY <1>0, <1>1, <1>2, Jump
<1>4. Known[p] \in Nat /\ Known[p] <= Latest
  OBVIOUS
<1>5. Placed(p)'
  BY <1>3, <1>4 DEF Placed, Accounts
<1>6. Role(p)'
  BY <1>3 DEF Role, Starting
<1>7. Knows(p)'
  <2>1. CASE n < Known[p]
    BY <1>3, <1>4, <2>1 DEF Knows, Serves, Migrating, Versions
  <2>2. CASE ~(n < Known[p])
    BY <1>3, <1>4, <2>2 DEF Knows, Serves, Migrating, Versions, Accounts
  <2> QED
    BY <2>1, <2>2
<1> QED
  BY <1>3, <1>5, <1>6, <1>7

\* Past an account, the process is at the next one or has them all.
LEMMA AfterAccountKnows ==
  ASSUME StartupInv, NEW p \in Processes, pc[p] \in {"find", "insert"}, AfterAccount(p),
         lock' = lock, ledger' = ledger,
         \A a \in Accounts : a <= at[p] => users'[a] # Nobody
  PROVE  /\ Placed(p)' /\ Role(p)' /\ Knows(p)'
         /\ pc' \in [Processes -> Labels] /\ at' \in [Processes -> Nat]
         /\ password' \in [Processes -> Passwords \union {Nobody}]
         /\ \A q \in Processes \ {p} : pc'[q] = pc[q] /\ at'[q] = at[q] /\ password'[q] = password[q]
<1> USE StartupAssumption
<1>0. Domains /\ Placed(p) /\ Role(p) /\ Knows(p)
  BY DEF StartupInv, StartupTypeOK
<1>1. at[p] \in Accounts /\ Kind[p] = "scheduler" /\ lock # p /\ password[p] # Nobody
  BY <1>0 DEF Placed, Role, Starting
<1>2. password' \in [Processes -> Passwords \union {Nobody}]
      /\ \A q \in Processes \ {p} : password'[q] = password[q]
  BY <1>0 DEF Domains, AfterAccount
<1> DEFINE label == IF at[p] < LastAccount THEN "find" ELSE "running"
           m == IF at[p] < LastAccount THEN at[p] + 1 ELSE 1
<1>3. GoToAt(p, label, m)
  BY DEF AfterAccount
<1>4. label \in Labels /\ m \in Nat
  BY <1>1 DEF Labels, Starting, Accounts
<1>5. /\ pc'[p] = label /\ at'[p] = m
      /\ pc' \in [Processes -> Labels] /\ at' \in [Processes -> Nat]
      /\ \A q \in Processes \ {p} : pc'[q] = pc[q] /\ at'[q] = at[q]
  BY <1>0, <1>3, <1>4, Jump
<1>6. Placed(p)'
  <2>1. at[p] < LastAccount => password'[p] # Nobody
    BY <1>1 DEF AfterAccount
  <2> QED
    BY <1>1, <1>5, <2>1 DEF Placed, Accounts, Starting
<1>7. Role(p)'
  BY <1>1, <1>5 DEF Role, Starting
<1>8. Knows(p)'
  <2>1. \A v \in Versions : v <= Known[p] => v \in ledger'
    BY <1>0 DEF Knows
  <2>2. \A a \in Accounts : a < at[p] + 1 => users'[a] # Nobody
    BY <1>1 DEF Accounts
  <2>3. ~(at[p] < LastAccount) => \A a \in Accounts : users'[a] # Nobody
    BY <1>1 DEF Accounts
  <2> QED
    BY <1>5, <2>1, <2>2, <2>3 DEF Knows, Serves, Migrating
<1> QED
  BY <1>2, <1>5, <1>6, <1>7, <1>8

-----------------------------------------------------------------------------
(* One lemma per action.                                                   *)

LEMMA BootKeeps ==
  ASSUME StartupInv, NEW p \in Processes, Boot(p)
  PROVE  StartupInv'
<1> USE StartupAssumption DEF Boot, FromEnv, Opened, database
<1>0. Domains /\ Placed(p) /\ Role(p)
  BY DEF StartupInv, StartupTypeOK
<1> DEFINE label == IF Kind[p] = "executor" THEN "running" ELSE "create"
<1>1. label \in Labels /\ GoToAt(p, label, 1)
  BY DEF Labels, Starting
<1>2. /\ pc'[p] = label /\ at'[p] = 1
      /\ pc' \in [Processes -> Labels] /\ at' \in [Processes -> Nat]
      /\ \A q \in Processes \ {p} : pc'[q] = pc[q] /\ at'[q] = at[q]
  BY <1>0, <1>1, Jump
<1>3. /\ password' \in [Processes -> Passwords \union {Nobody}]
      /\ \A q \in Processes \ {p} : password'[q] = password[q]
      /\ Kind[p] = "scheduler" => password'[p] # Nobody
  <2>0. password \in [Processes -> Passwords \union {Nobody}]
    BY <1>0 DEF Domains
  <2>1. CASE Kind[p] = "scheduler"
    <3>1. PICK w \in Passwords : password' = [password EXCEPT ![p] = w]
      BY <2>1
    <3>2. w # Nobody
      BY <3>1
    <3> QED
      BY <2>0, <3>1, <3>2
  <2>2. CASE Kind[p] # "scheduler"
    BY <2>0, <2>2
  <2> QED
    BY <2>1, <2>2
<1>4. Domains'
  BY <1>0, <1>2, <1>3 DEF Domains, Labels
<1>5. lock # p
  BY <1>0 DEF Placed, Ended
<1>6. Placed(p)' /\ Role(p)' /\ Knows(p)'
  BY <1>2, <1>3, <1>5 DEF Placed, Role, Knows, Serves, Migrating, Starting
<1>7. MigratedOnceInOrder'
  BY DEF MigratedOnceInOrder, StartupInv
<1> QED
  BY <1>2, <1>3, <1>4, <1>6, <1>7, MoveKeeps DEF Moves

LEMMA CreateTrackingKeeps ==
  ASSUME StartupInv, NEW p \in Processes, CreateTracking(p)
  PROVE  StartupInv'
<1> USE StartupAssumption DEF CreateTracking
<1>0. Domains /\ Placed(p) /\ Role(p)
  BY DEF StartupInv, StartupTypeOK
<1>1. 0 \in 0 .. Known[p] /\ lock # p /\ Kind[p] # "executor"
      /\ (Kind[p] = "scheduler" => password[p] # Nobody)
  BY <1>0 DEF Placed, Role, Starting
<1>2. /\ Placed(p)' /\ Role(p)' /\ Knows(p)'
      /\ pc' \in [Processes -> Labels] /\ at' \in [Processes -> Nat]
      /\ \A q \in Processes \ {p} : pc'[q] = pc[q] /\ at'[q] = at[q]
  BY <1>1, AfterVersionKnows DEF Versions
<1>3. Domains'
  BY <1>0, <1>2 DEF Domains, Labels
<1>4. MigratedOnceInOrder'
  BY DEF MigratedOnceInOrder, StartupInv
<1> QED
  BY <1>2, <1>3, <1>4, MoveKeeps DEF Moves

\* A step of a process within its migrations, its number unchanged.
LEMMA CheckKeeps ==
  ASSUME StartupInv, NEW p \in Processes, Check(p)
  PROVE  StartupInv'
<1> USE StartupAssumption DEF Check, database
<1>0. Domains /\ Placed(p) /\ Role(p) /\ Knows(p)
  BY DEF StartupInv, StartupTypeOK
<1>1. at[p] \in 1 .. Known[p] /\ lock # p /\ Kind[p] # "executor"
      /\ (Kind[p] = "scheduler" => password[p] # Nobody)
  BY <1>0 DEF Placed, Role, Starting
<1>2. /\ Placed(p)' /\ Role(p)' /\ Knows(p)'
      /\ pc' \in [Processes -> Labels] /\ at' \in [Processes -> Nat]
      /\ \A q \in Processes \ {p} : pc'[q] = pc[q] /\ at'[q] = at[q]
  <2>1. CASE at[p] \in ledger
    <3>1. \A v \in Versions : v <= at[p] => v \in ledger'
      BY <1>0, <1>1, <2>1 DEF Knows, Migrating, Versions
    <3>2. at[p] \in 0 .. Known[p] /\ AfterVersion(p, at[p])
      BY <1>1, <2>1
    <3> QED
      BY <1>1, <3>1, <3>2, AfterVersionKnows
  <2>2. CASE at[p] \notin ledger
    <3>1. GoToAt(p, "exec", at[p])
      BY <1>0, <2>2 DEF GoToAt, Domains
    <3>2. "exec" \in Labels /\ at[p] \in Nat
      BY <1>1 DEF Labels, Starting
    <3>3. /\ pc'[p] = "exec" /\ at'[p] = at[p]
          /\ pc' \in [Processes -> Labels] /\ at' \in [Processes -> Nat]
          /\ \A q \in Processes \ {p} : pc'[q] = pc[q] /\ at'[q] = at[q]
      BY <1>0, <3>1, <3>2, Jump
    <3>4. Placed(p)' /\ Role(p)' /\ Knows(p)'
      BY <1>0, <1>1, <3>3 DEF Placed, Role, Knows, Serves, Migrating, Starting
    <3> QED
      BY <3>3, <3>4
  <2> QED
    BY <2>1, <2>2
<1>3. Domains'
  BY <1>0, <1>2 DEF Domains, Labels
<1>4. MigratedOnceInOrder'
  BY DEF MigratedOnceInOrder, StartupInv
<1> QED
  BY <1>2, <1>3, <1>4, MoveKeeps DEF Moves

LEMMA ExecKeeps ==
  ASSUME StartupInv, NEW p \in Processes, Exec(p)
  PROVE  StartupInv'
<1> USE StartupAssumption DEF Exec, database
<1>0. Domains /\ Placed(p) /\ Role(p) /\ Knows(p)
  BY DEF StartupInv, StartupTypeOK
<1>1. GoToAt(p, "record", at[p]) /\ "record" \in Labels /\ at[p] \in Nat
  BY <1>0 DEF GoToAt, Domains, Labels, Starting
<1>2. /\ pc'[p] = "record" /\ at'[p] = at[p]
      /\ pc' \in [Processes -> Labels] /\ at' \in [Processes -> Nat]
      /\ \A q \in Processes \ {p} : pc'[q] = pc[q] /\ at'[q] = at[q]
  BY <1>0, <1>1, Jump
<1>3. Placed(p)' /\ Role(p)' /\ Knows(p)'
  BY <1>0, <1>2 DEF Placed, Role, Knows, Serves, Migrating, Starting
<1>4. Domains'
  BY <1>0, <1>2 DEF Domains, Labels
<1>5. MigratedOnceInOrder'
  BY DEF MigratedOnceInOrder, StartupInv
<1> QED
  BY <1>2, <1>3, <1>4, <1>5, MoveKeeps DEF Moves

LEMMA RecordKeeps ==
  ASSUME StartupInv, NEW p \in Processes, Record(p)
  PROVE  StartupInv'
<1> USE StartupAssumption DEF Record, Recorded, database
<1>0. Domains /\ Placed(p) /\ Role(p) /\ Knows(p)
  BY DEF StartupInv, StartupTypeOK
<1>1. CASE at[p] \in ledger
  BY <1>0, <1>1, EndKeeps DEF Domains, Ended
<1>2. CASE at[p] \notin ledger
  <2>1. GoToAt(p, "commit", at[p]) /\ "commit" \in Labels /\ at[p] \in Nat
    BY <1>0, <1>2 DEF GoToAt, Domains, Labels, Starting
  <2>2. /\ pc'[p] = "commit" /\ at'[p] = at[p]
        /\ pc' \in [Processes -> Labels] /\ at' \in [Processes -> Nat]
        /\ \A q \in Processes \ {p} : pc'[q] = pc[q] /\ at'[q] = at[q]
    BY <1>0, <2>1, Jump
  <2>3. Placed(p)' /\ Role(p)' /\ Knows(p)'
    BY <1>0, <1>2, <2>2 DEF Placed, Role, Knows, Serves, Migrating, Starting
  <2>4. Domains'
    BY <1>0, <1>2, <2>2 DEF Domains, Labels
  <2>5. MigratedOnceInOrder'
    BY <1>2 DEF MigratedOnceInOrder, StartupInv
  <2> QED
    BY <1>2, <2>2, <2>3, <2>4, <2>5, MoveKeeps DEF Moves
<1> QED
  BY <1>1, <1>2

\* The only step that records: the lock keeps every other process from
\* committing, and the versions below are known to be there.
LEMMA CommitKeeps ==
  ASSUME StartupInv, NEW p \in Processes, Commit(p)
  PROVE  StartupInv'
<1> USE StartupAssumption DEF Commit, WithRecord
<1>0. Domains /\ Placed(p) /\ Role(p) /\ Knows(p)
  BY DEF StartupInv, StartupTypeOK
<1>1. at[p] \in 1 .. Known[p] /\ at[p] \in Versions /\ lock = p /\ Kind[p] # "executor"
      /\ (Kind[p] = "scheduler" => password[p] # Nobody)
  BY <1>0 DEF Placed, Role, Starting, Versions
<1>2. \A q \in Processes \ {p} : pc[q] # "commit"
  BY <1>1 DEF StartupInv, StartupTypeOK, Placed
<1>3. \A v \in Versions : v <= at[p] => v \in ledger'
  BY <1>0, <1>1 DEF Knows, Migrating, Versions
<1>4. lock' # p /\ at[p] \in 0 .. Known[p]
  BY <1>1
<1>5. /\ Placed(p)' /\ Role(p)' /\ Knows(p)'
      /\ pc' \in [Processes -> Labels] /\ at' \in [Processes -> Nat]
      /\ \A q \in Processes \ {p} : pc'[q] = pc[q] /\ at'[q] = at[q]
  BY <1>1, <1>3, <1>4, AfterVersionKnows
<1>6. applied' \in [Versions -> Nat] /\ ledger' \subseteq Versions
  <2>0. applied \in [Versions -> Nat]
    BY <1>0 DEF Domains
  <2>1. applied[at[p]] + 1 \in Nat
    <3>1. applied[at[p]] \in Nat
      BY <1>1, <2>0
    <3> QED
      BY <3>1
  <2>2. applied' \in [Versions -> Nat]
    BY <2>0, <2>1
  <2>3. ledger' \subseteq Versions
    BY <1>0, <1>1 DEF Domains
  <2> QED
    BY <2>2, <2>3
<1>7. Domains'
  BY <1>0, <1>5, <1>6 DEF Domains, Labels
<1>8. MigratedOnceInOrder'
  <2>1. MigratedOnceInOrder /\ at[p] \notin ledger
    BY <1>0 DEF StartupInv, Knows
  <2>2. ASSUME NEW v \in Versions PROVE applied'[v] = IF v \in ledger' THEN 1 ELSE 0
    <3>0. applied \in [Versions -> Nat]
      BY <1>0 DEF Domains
    <3>1. applied[v] = IF v \in ledger THEN 1 ELSE 0
      BY <2>1 DEF MigratedOnceInOrder
    <3>2. CASE v = at[p]
      <4>1. applied[v] = 0 /\ v \in ledger'
        BY <2>1, <3>1, <3>2
      <4>2. applied'[v] = applied[v] + 1
        BY <3>0, <3>2
      <4> QED
        BY <4>1, <4>2
    <3>3. CASE v # at[p]
      BY <3>0, <3>1, <3>3
    <3> QED
      BY <3>2, <3>3
  <2>3. ASSUME NEW v \in Versions, v \in ledger', NEW u \in 1 .. v PROVE u \in ledger'
    <3>1. CASE v \in ledger
      BY <2>1, <3>1 DEF MigratedOnceInOrder
    <3>2. CASE v = at[p]
      <4>1. u \in Versions /\ u <= at[p]
        BY <2>3, <3>2 DEF Versions
      <4> QED
        BY <1>3, <4>1
    <3> QED
      BY <2>3, <3>1, <3>2
  <2> QED
    BY <2>2, <2>3 DEF MigratedOnceInOrder
<1>9. \A q \in Processes \ {p} : lock' = q <=> lock = q
  BY <1>1
<1> QED
  BY <1>2, <1>5, <1>7, <1>8, <1>9, MoveKeeps DEF Moves

LEMMA FindKeeps ==
  ASSUME StartupInv, NEW p \in Processes, Find(p)
  PROVE  StartupInv'
<1> USE StartupAssumption DEF Find, database
<1>0. Domains /\ Placed(p) /\ Role(p) /\ Knows(p)
  BY DEF StartupInv, StartupTypeOK
<1>1. CASE UsersVersion \notin ledger
  BY <1>0, <1>1, EndKeeps DEF Domains, Ended
<1>2. CASE UsersVersion \in ledger
  <2>1. at[p] \in Accounts /\ password[p] # Nobody
    BY <1>0 DEF Placed, Role, Starting
  <2>2. /\ Placed(p)' /\ Role(p)' /\ Knows(p)'
        /\ pc' \in [Processes -> Labels] /\ at' \in [Processes -> Nat]
        /\ password' \in [Processes -> Passwords \union {Nobody}]
        /\ \A q \in Processes \ {p} : pc'[q] = pc[q] /\ at'[q] = at[q] /\ password'[q] = password[q]
    <3>1. CASE users[at[p]] # Nobody
      <4>1. \A a \in Accounts : a <= at[p] => users'[a] # Nobody
        BY <1>0, <1>2, <2>1, <3>1 DEF Knows, Accounts
      <4> QED
        BY <1>2, <3>1, <4>1, AfterAccountKnows
    <3>2. CASE users[at[p]] = Nobody
      <4>1. GoToAt(p, "insert", at[p]) /\ "insert" \in Labels /\ at[p] \in Nat
        BY <1>0, <1>2, <3>2 DEF GoToAt, Domains, Labels, Starting
      <4>2. /\ pc'[p] = "insert" /\ at'[p] = at[p]
            /\ pc' \in [Processes -> Labels] /\ at' \in [Processes -> Nat]
            /\ \A q \in Processes \ {p} : pc'[q] = pc[q] /\ at'[q] = at[q]
        BY <1>0, <4>1, Jump
      <4>3. Placed(p)' /\ Role(p)' /\ Knows(p)'
        BY <1>0, <1>2, <3>2, <4>2 DEF Placed, Role, Knows, Serves, Migrating, Starting
      <4> QED
        BY <1>0, <1>2, <3>2, <4>2, <4>3 DEF Domains
    <3> QED
      BY <3>1, <3>2
  <2>3. Domains'
    BY <1>0, <1>2, <2>2 DEF Domains, Labels
  <2>4. MigratedOnceInOrder'
    BY <1>2 DEF MigratedOnceInOrder, StartupInv
  <2> QED
    BY <1>2, <2>2, <2>3, <2>4, MoveKeeps DEF Moves
<1> QED
  BY <1>1, <1>2

LEMMA InsertKeeps ==
  ASSUME StartupInv, NEW p \in Processes, Insert(p)
  PROVE  StartupInv'
<1> USE StartupAssumption DEF Insert, Inserted
<1>0. Domains /\ Placed(p) /\ Role(p) /\ Knows(p)
  BY DEF StartupInv, StartupTypeOK
<1>1. at[p] \in Accounts /\ password[p] # Nobody /\ password[p] \in Passwords \union {Nobody}
  BY <1>0 DEF Placed, Role, Starting, Domains
<1>2. /\ users' \in [Accounts -> Passwords \union {Nobody}]
      /\ users'[at[p]] # Nobody
      /\ \A a \in Accounts : users[a] # Nobody => users'[a] # Nobody
  BY <1>0, <1>1 DEF Domains
<1>3. \A a \in Accounts : a <= at[p] => users'[a] # Nobody
  BY <1>0, <1>1, <1>2 DEF Knows, Accounts
<1>4. /\ Placed(p)' /\ Role(p)' /\ Knows(p)'
      /\ pc' \in [Processes -> Labels] /\ at' \in [Processes -> Nat]
      /\ password' \in [Processes -> Passwords \union {Nobody}]
      /\ \A q \in Processes \ {p} : pc'[q] = pc[q] /\ at'[q] = at[q] /\ password'[q] = password[q]
  BY <1>3, AfterAccountKnows
<1>5. Domains'
  BY <1>0, <1>2, <1>4 DEF Domains, Labels
<1>6. MigratedOnceInOrder'
  BY DEF MigratedOnceInOrder, StartupInv
<1> QED
  BY <1>2, <1>4, <1>5, <1>6, MoveKeeps DEF Moves

LEMMA PollKeeps ==
  ASSUME StartupInv, NEW p \in Processes, Poll(p)
  PROVE  StartupInv'
<1> USE DEF Poll, database
<1>1. Domains'
  BY DEF StartupInv, StartupTypeOK, Domains
<1>2. MigratedOnceInOrder'
  BY DEF StartupInv, MigratedOnceInOrder
<1>3. ASSUME NEW q \in Processes PROVE Placed(q)' /\ Role(q)' /\ Knows(q)'
  BY OthersKeep
<1> QED
  BY <1>1, <1>2, <1>3 DEF StartupInv, StartupTypeOK

\* Every way of ending is an End.
LEMMA EndingsKeep ==
  ASSUME StartupInv, NEW p \in Processes,
         Report(p) \/ Stop(p) \/ BusyAtOnce(p) \/ BusyTimeout(p) \/ StatementFails(p) \/ Killed(p)
  PROVE  StartupInv'
<1>1. faults \in 0 .. MaxFaults
  BY DEF StartupInv, StartupTypeOK, Domains
<1>2. faults' \in 0 .. MaxFaults
  BY <1>1, StartupAssumption DEF Report, Stop, BusyAtOnce, BusyTimeout, StatementFails, Killed
<1>3. \/ End(p, "ok") /\ pc[p] = "report"
      \/ End(p, "down")
  BY DEF Report, Stop, BusyAtOnce, BusyTimeout, StatementFails, Killed
<1> QED
  BY <1>2, <1>3, EndKeeps DEF Ended

LEMMA InvStep == StartupInv /\ [StartupNext]_vars => StartupInv'
<1> SUFFICES ASSUME StartupInv, [StartupNext]_vars PROVE StartupInv'
  OBVIOUS
<1>1. CASE UNCHANGED vars
  <2>1. Domains' /\ MigratedOnceInOrder'
    BY <1>1 DEF vars, StartupInv, StartupTypeOK, Domains, MigratedOnceInOrder
  <2>2. ASSUME NEW q \in Processes PROVE Placed(q)' /\ Role(q)' /\ Knows(q)'
    BY <1>1, OthersKeep DEF vars
  <2> QED
    BY <2>1, <2>2 DEF StartupInv, StartupTypeOK
<1>2. CASE StartupNext
  <2>1. PICK p \in Processes :
          \/ Boot(p) \/ Stop(p) \/ Proceed(p)
          \/ BusyTimeout(p) \/ StatementFails(p) \/ Killed(p)
    BY <1>2 DEF StartupNext
  <2> QED
    BY <2>1, BootKeeps, CreateTrackingKeeps, CheckKeeps, ExecKeeps, RecordKeeps, CommitKeeps,
       FindKeeps, InsertKeeps, PollKeeps, EndingsKeep DEF Proceed
<1> QED
  BY <1>1, <1>2

\* What every reachable state satisfies: the lock is where the transaction is,
\* and processes know what they have passed (Migrate, Bootstrap).
THEOREM StartupInvariant == StartupSpec => []StartupInv
BY InvInit, InvStep, PTL DEF StartupSpec

\* Control and tables stay within their domains, and the lock is held inside a
\* transaction only (applyMigration).
THEOREM StartupTypeCorrect == StartupSpec => []StartupTypeOK
<1>1. StartupInv => StartupTypeOK
  BY DEF StartupInv
<1> QED
  BY <1>1, StartupInvariant, PTL

\* A migration's content is committed once, with its record, in order
\* (applyMigration), however many processes race and wherever they are killed.
THEOREM Migrated == StartupSpec => []MigratedOnceInOrder
<1>1. StartupInv => MigratedOnceInOrder
  BY DEF StartupInv
<1> QED
  BY <1>1, StartupInvariant, PTL

\* A serving scheduler has its tables and accounts; a migrate command that
\* exits with 0 has applied everything (main, New, Bootstrap).
THEOREM Ready == StartupSpec => []ReadyWhenRunning
<1>1. StartupInv => ReadyWhenRunning
  <2> SUFFICES ASSUME StartupInv, NEW p \in Processes
               PROVE  /\ Kind[p] = "scheduler" /\ pc[p] = "running" =>
                           1 .. Known[p] \subseteq ledger /\ \A a \in Accounts : users[a] # Nobody
                      /\ Kind[p] = "migrate" /\ pc[p] = "ok" => 1 .. Known[p] \subseteq ledger
    BY DEF ReadyWhenRunning
  <2>1. Knows(p)
    BY DEF StartupInv
  <2>2. 1 .. Known[p] \subseteq Versions /\ \A v \in 1 .. Known[p] : v <= Known[p]
    BY StartupAssumption DEF Versions
  <2> QED
    BY <2>1, <2>2 DEF Knows, Serves
<1> QED
  BY <1>1, StartupInvariant, PTL

\* No step changes the password of an account that exists (CreateUserIfAbsent).
THEOREM Kept == StartupSpec => PasswordsKept
<1>1. StartupInv /\ [StartupNext]_vars => [\A a \in Accounts : users[a] # Nobody => users'[a] = users[a]]_vars
  <2> SUFFICES ASSUME StartupInv, StartupNext, NEW a \in Accounts, users[a] # Nobody
               PROVE  users'[a] = users[a]
    OBVIOUS
  <2>1. users \in [Accounts -> Passwords \union {Nobody}]
    BY DEF StartupInv, StartupTypeOK, Domains
  <2>2. PICK p \in Processes :
          \/ Boot(p) \/ Stop(p) \/ Proceed(p)
          \/ BusyTimeout(p) \/ StatementFails(p) \/ Killed(p)
    BY DEF StartupNext
  <2>3. CASE Insert(p)
    BY <2>1, <2>3 DEF Insert, Inserted
  <2>4. CASE ~Insert(p)
    BY <2>2, <2>4 DEF Boot, Stop, Proceed, BusyTimeout, StatementFails, Killed, CreateTracking,
       Check, Exec, Record, Commit, Report, Find, Poll, BusyAtOnce, End, database
  <2> QED
    BY <2>3, <2>4
<1> QED
  BY <1>1, StartupInvariant, PTL DEF StartupSpec, PasswordsKept
=============================================================================
