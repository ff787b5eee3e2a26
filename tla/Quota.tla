------------------------------- MODULE Quota -------------------------------
(***************************************************************************)
(* The charging quota: the quotas table, one row per charging kind and day, *)
(* and the quota service's endpoints, which reserve, commit and release    *)
(* units of a row.                                                         *)
(*                                                                         *)
(* An endpoint reads the row and writes it with an UPDATE guarded by the   *)
(* version it read and by the amounts; when the UPDATE matches nothing it  *)
(* starts over, a bounded number of times.                                 *)
(***************************************************************************)
EXTENDS Integers

CONSTANTS
  Quotas,      \* (charging kind, day) pairs
  Limit,       \* Limit[q]: the configured daily limit of its kind
  Callers,     \* request goroutines in the quota endpoints
  Amounts,     \* amounts callers ask for
  MaxRetries,  \* retries of a reservation (25 in the code)
  MaxUpdates,  \* attempts of a commit or a release (5 in the code)
  MaxVersion   \* bound: requests arrive only while a row has fewer versions

ASSUME QuotaAssumption ==
  /\ Limit \in [Quotas -> Nat]
  /\ Amounts \subseteq Int
  /\ MaxRetries \in Nat
  /\ MaxUpdates \in Nat \ {0}
  /\ MaxVersion \in Nat

VARIABLES
  quota,    \* the quotas table; version 0: no row
  call,     \* call[c]: the endpoint call c is in, with what it has read
  backward  \* history: units a row's commits and releases of a negative amount moved

quotaVars == <<quota, call, backward>>

QuotaRow == [used : Int, reserved : Int, version : Nat]

NoQuota == [used |-> 0, reserved |-> 0, version |-> 0]
NewQuota == [used |-> 0, reserved |-> 0, version |-> 1]

Op == {"reserve", "commit", "release"}

\* No call reserves an amount that is not positive.
Call == {r \in [pc : {"reading", "writing"}, op : Op, quota : Quotas, amount : Amounts,
                version : Nat, attempts : Nat] :
           r.op = "reserve" => r.amount > 0}

Done == [pc |-> "done"]

QuotaInit ==
  /\ quota = [q \in Quotas |-> NoQuota]
  /\ call = [c \in Callers |-> Done]
  /\ backward = [q \in Quotas |-> [op \in Op |-> 0]]

-----------------------------------------------------------------------------
(* The row and the SQL statements.                                         *)

Held(q) == quota[q].used + quota[q].reserved

Available(q) == IF Limit[q] < Held(q) THEN 0 ELSE Limit[q] - Held(q)

\* Utilization() > 0.8, a comparison of integers.
HighlyUtilized(q) == 5 * Held(q) > 4 * Limit[q] /\ Limit[q] > 0

\* SELECT, else INSERT, else (another caller inserted first) SELECT again: no
\* row is ever deleted, so the caller has the row of its last statement.
GetOrCreateQuota(q) ==
  IF quota[q].version = 0 THEN [quota EXCEPT ![q] = NewQuota] ELSE quota

\* Mutated WHERE clauses: WHERE id = ?, and WHERE id = ? AND version = ?.
AnyRow(q, n, v) == quota[q].version # 0
SameVersion(q, n, v) == quota[q].version = v

ReserveWhere(q, n, v) == quota[q].version = v /\ Limit[q] - Held(q) >= n
ReturnWhere(q, n, v) == quota[q].version = v /\ quota[q].reserved >= n

ReserveQuota(q, n, v) ==
  IF ReserveWhere(q, n, v)
  THEN [quota EXCEPT ![q].reserved = @ + n, ![q].version = @ + 1]
  ELSE quota

CommitQuota(q, n, v) ==
  IF ReturnWhere(q, n, v)
  THEN [quota EXCEPT ![q].used = @ + n, ![q].reserved = @ - n, ![q].version = @ + 1]
  ELSE quota

ReleaseQuota(q, n, v) ==
  IF ReturnWhere(q, n, v)
  THEN [quota EXCEPT ![q].reserved = @ - n, ![q].version = @ + 1]
  ELSE quota

-----------------------------------------------------------------------------
(* The endpoints.                                                          *)

Finish(c) == call' = [call EXCEPT ![c] = Done]

\* A request: only Reserve checks that the amount is positive; the others name
\* an existing row by id.
Arrive(c, op, q, n) ==
  /\ call[c] = Done
  /\ quota[q].version < MaxVersion
  /\ op = "reserve" => n > 0
  /\ op # "reserve" => quota[q].version # 0
  /\ call' = [call EXCEPT ![c] = [pc |-> "reading", op |-> op, quota |-> q,
                                  amount |-> n, version |-> 0, attempts |-> 0]]
  /\ UNCHANGED <<quota, backward>>

ReadFor(c, op) == call[c].pc = "reading" /\ call[c].op = op

Retain(c) ==
  call' = [call EXCEPT ![c].pc = "writing", ![c].version = quota'[call[c].quota].version]

\* Reserve gives up at once if the row has too little left.
ReserveRead(c) ==
  /\ ReadFor(c, "reserve")
  /\ quota' = GetOrCreateQuota(call[c].quota)
  /\ IF Available(call[c].quota) < call[c].amount THEN Finish(c) ELSE Retain(c)

CommitRead(c) ==
  /\ ReadFor(c, "commit")
  /\ UNCHANGED quota
  /\ IF quota[call[c].quota].reserved < call[c].amount THEN Finish(c) ELSE Retain(c)

\* Release does not look at the row; the UPDATE's guard decides.
ReleaseRead(c) ==
  /\ ReadFor(c, "release")
  /\ UNCHANGED quota
  /\ Retain(c)

Tries(op) == IF op = "reserve" THEN MaxRetries + 1 ELSE MaxUpdates

\* Mutated loop: the attempt is not counted.
RetryForever(c) == call' = [call EXCEPT ![c].pc = "reading"]

\* The UPDATE matched nothing: once more from the start, if attempts are left.
Retry(c) ==
  IF call[c].attempts + 1 < Tries(call[c].op)
  THEN call' = [call EXCEPT ![c].pc = "reading", ![c].attempts = @ + 1]
  ELSE Finish(c)

Note(q, op, n) ==
  backward' = IF quota' # quota /\ n < 0 THEN [backward EXCEPT ![q][op] = @ - n] ELSE backward

Write(c, op) ==
  LET q == call[c].quota  n == call[c].amount  v == call[c].version IN
    /\ call[c].pc = "writing" /\ call[c].op = op
    /\ \/ op = "reserve" /\ quota' = ReserveQuota(q, n, v)
       \/ op = "commit" /\ quota' = CommitQuota(q, n, v)
       \/ op = "release" /\ quota' = ReleaseQuota(q, n, v)
    /\ IF quota' = quota THEN Retry(c) ELSE Finish(c)
    /\ Note(q, op, n)

\* The UPDATE fails because another connection holds the database: only a
\* reservation tries again.
WriteRefused(c) ==
  /\ call[c].pc = "writing"
  /\ IF call[c].op = "reserve" THEN Retry(c) ELSE Finish(c)
  /\ UNCHANGED quota

\* Any other failed statement, or a cancelled request, ends the call.
Abandon(c) ==
  /\ call[c] # Done
  /\ Finish(c)
  /\ UNCHANGED <<quota, backward>>

Serve(c) ==
  \/ /\ ReserveRead(c) \/ CommitRead(c) \/ ReleaseRead(c) \/ WriteRefused(c)
     /\ UNCHANGED backward
  \/ \E op \in Op : Write(c, op)

QuotaNext ==
  \E c \in Callers :
    \/ \E op \in Op, q \in Quotas, n \in Amounts : Arrive(c, op, q, n)
    \/ Serve(c)
    \/ Abandon(c)

QuotaSpec == QuotaInit /\ [][QuotaNext]_quotaVars

-----------------------------------------------------------------------------
(* Properties.                                                             *)

\* Rows, calls and history stay within their domains.
QuotaTypeOK ==
  /\ quota \in [Quotas -> QuotaRow]
  /\ call \in [Callers -> Call \union {Done}]
  /\ backward \in [Quotas -> [Op -> Nat]]

\* However reservations, commits and releases of one day interleave, no unit
\* is reserved or used twice and none is given back that was not reserved.
\* Only a client's negative amount, which Commit and Release do not refuse,
\* takes a row past its bounds, and by no more than its units.
WithinLimit ==
  \A q \in Quotas :
    /\ quota[q].reserved >= 0
    /\ quota[q].used >= - backward[q]["commit"]
    /\ Held(q) <= Limit[q] + backward[q]["release"]

\* The service implements the abstract allowance.
Allowed == INSTANCE Allowance WITH
             reserved  <- [q \in Quotas |-> quota[q].reserved],
             used      <- [q \in Quotas |-> quota[q].used],
             recalled  <- [q \in Quotas |-> backward[q]["commit"]],
             overdrawn <- [q \in Quotas |-> backward[q]["release"]]

AllowanceSpec == Allowed!AllowanceSpec

\* Every call ends, whatever the others write in between: a caller that loses
\* every race gives up.
CallEnds == \A c \in Callers : call[c] # Done ~> call[c] = Done
=============================================================================
