---------------------------- MODULE QuotaProofs ----------------------------
(* Proofs about Quota, for every limit, set of callers, set of amounts and  *)
(* number of retries.                                                       *)
EXTENDS Quota, TLAPS

Rows ==
  /\ quota \in [Quotas -> QuotaRow]
  /\ backward \in [Quotas -> [Op -> Nat]]
  /\ WithinLimit

reservedUnits == [q \in Quotas |-> quota[q].reserved]
usedUnits == [q \in Quotas |-> quota[q].used]
recalledUnits == [q \in Quotas |-> backward[q]["commit"]]
overdrawnUnits == [q \in Quotas |-> backward[q]["release"]]

allUnits == <<reservedUnits, usedUnits, recalledUnits, overdrawnUnits>>

AllowanceStep == Allowed!AllowanceNext \/ UNCHANGED allUnits

\* Only the row of the statement changes.
LEMMA OneRow ==
  ASSUME quota \in [Quotas -> QuotaRow], quota' \in [Quotas -> QuotaRow],
         NEW q \in Quotas, \A r \in Quotas \ {q} : quota'[r] = quota[r]
  PROVE  /\ reservedUnits' = [reservedUnits EXCEPT ![q] = quota'[q].reserved]
         /\ usedUnits' = [usedUnits EXCEPT ![q] = quota'[q].used]
BY DEF reservedUnits, usedUnits

\* What the history of negative amounts notes of a statement that matched.
LEMMA Noted ==
  ASSUME backward \in [Quotas -> [Op -> Nat]], NEW q \in Quotas, NEW op \in {"commit", "release"},
         NEW n \in Int, n < 0, quota' # quota, Note(q, op, n)
  PROVE  /\ backward' \in [Quotas -> [Op -> Nat]]
         /\ backward'[q][op] = backward[q][op] - n
         /\ \A r \in Quotas, o \in Op : r # q \/ o # op => backward'[r][o] = backward[r][o]
         /\ op = "commit" => /\ recalledUnits' = [recalledUnits EXCEPT ![q] = @ - n]
                             /\ UNCHANGED overdrawnUnits
         /\ op = "release" => /\ overdrawnUnits' = [overdrawnUnits EXCEPT ![q] = @ - n]
                              /\ UNCHANGED recalledUnits
<1>1. op \in Op /\ backward[q] \in [Op -> Nat] /\ backward[q][op] \in Nat
  BY DEF Op
<1>2. PICK k \in Nat : k = backward[q][op] - n
  BY <1>1
<1>3. backward' = [backward EXCEPT ![q] = [backward[q] EXCEPT ![op] = k]]
  BY <1>2 DEF Note
<1>4. [backward[q] EXCEPT ![op] = k] \in [Op -> Nat]
  BY <1>1
<1>5. /\ backward' \in [Quotas -> [Op -> Nat]]
      /\ backward'[q][op] = k
      /\ \A r \in Quotas, o \in Op : r # q \/ o # op => backward'[r][o] = backward[r][o]
  BY <1>1, <1>3, <1>4
<1>6. CASE op = "commit"
  BY <1>2, <1>5, <1>6 DEF recalledUnits, overdrawnUnits, Op
<1>7. CASE op = "release"
  BY <1>2, <1>5, <1>7 DEF recalledUnits, overdrawnUnits, Op
<1> QED
  BY <1>2, <1>5, <1>6, <1>7

\* It notes nothing of any other.
LEMMA NothingNoted ==
  ASSUME NEW q, NEW op, NEW n, ~(n < 0) \/ quota' = quota
  PROVE  Note(q, op, n) <=> UNCHANGED backward
BY DEF Note

\* The units of the rows are integers.
LEMMA UnitsType ==
  ASSUME quota \in [Quotas -> QuotaRow]
  PROVE  reservedUnits \in [Quotas -> Int] /\ usedUnits \in [Quotas -> Int]
BY DEF reservedUnits, usedUnits, QuotaRow

\* A change by zero units is none.
LEMMA NoUnits ==
  ASSUME NEW f \in [Quotas -> Int], NEW q \in Quotas
  PROVE  [f EXCEPT ![q] = @ + 0] = f /\ [f EXCEPT ![q] = @ - 0] = f
OBVIOUS

\* Getting or creating a row moves no unit.
LEMMA GetOrCreateRows ==
  ASSUME Rows, NEW q \in Quotas, quota' = GetOrCreateQuota(q), UNCHANGED backward,
         quota[q].version = 0 => quota[q] = NoQuota
  PROVE  Rows' /\ UNCHANGED allUnits
<1>1. CASE quota[q].version # 0
  <2>1. quota' = quota
    BY <1>1 DEF GetOrCreateQuota
  <2> QED
    BY <2>1 DEF Rows, WithinLimit, Held, allUnits, reservedUnits, usedUnits, recalledUnits,
       overdrawnUnits
<1>2. CASE quota[q].version = 0
  <2>1. quota' = [quota EXCEPT ![q] = NewQuota] /\ quota[q] = NoQuota
    BY <1>2 DEF GetOrCreateQuota
  <2>2. quota' \in [Quotas -> QuotaRow]
    BY <2>1 DEF Rows, QuotaRow, NewQuota
  <2>3. \A r \in Quotas : quota'[r].used = quota[r].used /\ quota'[r].reserved = quota[r].reserved
    BY <2>1 DEF Rows, NewQuota, NoQuota
  <2> QED
    BY <2>2, <2>3 DEF Rows, WithinLimit, Held, allUnits, reservedUnits, usedUnits, recalledUnits,
       overdrawnUnits
<1> QED
  BY <1>1, <1>2

\* A statement that matches nothing leaves all units where they are.
LEMMA NothingMoved ==
  ASSUME Rows, UNCHANGED <<quota, backward>>
  PROVE  Rows' /\ AllowanceStep
BY DEF Rows, WithinLimit, Held, AllowanceStep, allUnits, reservedUnits, usedUnits, recalledUnits,
   overdrawnUnits

\* A reservation that matches keeps the limit and is a grant of the allowance.
LEMMA ReserveRows ==
  ASSUME Rows, NEW q \in Quotas, NEW n \in Nat \ {0}, NEW v, quota' = ReserveQuota(q, n, v),
         UNCHANGED backward
  PROVE  Rows' /\ AllowanceStep
<1>1. CASE ~ReserveWhere(q, n, v)
  BY <1>1, NothingMoved DEF ReserveQuota
<1>2. CASE ReserveWhere(q, n, v)
  <2>1. quota[q] \in QuotaRow /\ Limit[q] \in Nat
    BY QuotaAssumption DEF Rows
  <2>2. /\ quota' \in [Quotas -> QuotaRow]
        /\ quota'[q].used = quota[q].used /\ quota'[q].reserved = quota[q].reserved + n
        /\ \A r \in Quotas \ {q} : quota'[r] = quota[r]
    BY <1>2 DEF ReserveQuota, Rows, QuotaRow
  <2>3. /\ quota[q].reserved >= 0
        /\ n \in 1 .. Limit[q] - quota[q].used - quota[q].reserved
    BY <1>2, <2>1 DEF ReserveWhere, Rows, WithinLimit, Held, QuotaRow
  <2>4. Rows'
    <3>1. backward[q]["commit"] \in Nat /\ backward[q]["release"] \in Nat
      BY DEF Rows, Op
    <3> QED
      BY <2>1, <2>2, <2>3, <3>1 DEF Rows, WithinLimit, Held, QuotaRow
  <2>5. Allowed!Grant(q, n)
    <3>1. /\ reservedUnits' = [reservedUnits EXCEPT ![q] = @ + n] /\ usedUnits' = usedUnits
          /\ UNCHANGED <<recalledUnits, overdrawnUnits>>
      BY <2>2, OneRow DEF Rows, reservedUnits, usedUnits, recalledUnits, overdrawnUnits
    <3> QED
      BY <3>1 DEF Allowed!Grant, reservedUnits, usedUnits, recalledUnits, overdrawnUnits
  <2>6. AllowanceStep
    <3>1. n \in 1 .. Limit[q] - usedUnits[q] - reservedUnits[q]
      BY <2>3 DEF usedUnits, reservedUnits
    <3> QED
      BY <2>5, <3>1 DEF AllowanceStep, Allowed!AllowanceNext, reservedUnits, usedUnits
  <2> QED
    BY <2>4, <2>6
<1> QED
  BY <1>1, <1>2

\* A commit that matches spends reserved units, or recalls used ones.
LEMMA CommitRows ==
  ASSUME Rows, NEW q \in Quotas, NEW n \in Amounts, NEW v, quota' = CommitQuota(q, n, v),
         Note(q, "commit", n)
  PROVE  Rows' /\ AllowanceStep
<1>0. n \in Int /\ Limit[q] \in Nat
  BY QuotaAssumption
<1>1. CASE ~ReturnWhere(q, n, v)
  BY <1>1, NothingNoted, NothingMoved DEF CommitQuota
<1>2. CASE ReturnWhere(q, n, v)
  <2>1. quota[q] \in QuotaRow
    BY DEF Rows
  <2>2. /\ quota' \in [Quotas -> QuotaRow] /\ quota' # quota
        /\ quota'[q].used = quota[q].used + n /\ quota'[q].reserved = quota[q].reserved - n
        /\ \A r \in Quotas \ {q} : quota'[r] = quota[r]
    BY <1>0, <1>2 DEF CommitQuota, Rows, QuotaRow
  <2>3. /\ quota[q].reserved >= n /\ quota[q].reserved >= 0
        /\ quota[q].used >= - backward[q]["commit"]
        /\ quota[q].used + quota[q].reserved <= Limit[q] + backward[q]["release"]
    BY <1>2, <2>1 DEF ReturnWhere, Rows, WithinLimit, Held, QuotaRow
  <2>4. backward[q]["commit"] \in Nat /\ backward[q]["release"] \in Nat
    BY DEF Rows, Op
  <2>5. /\ reservedUnits' = [reservedUnits EXCEPT ![q] = @ - n]
        /\ usedUnits' = [usedUnits EXCEPT ![q] = @ + n]
        /\ reservedUnits[q] = quota[q].reserved
    BY <2>2, OneRow DEF Rows, reservedUnits, usedUnits
  <2>6. CASE n < 0
    <3>1. /\ backward' \in [Quotas -> [Op -> Nat]]
          /\ backward'[q]["commit"] = backward[q]["commit"] - n
          /\ \A r \in Quotas, o \in Op :
               r # q \/ o # "commit" => backward'[r][o] = backward[r][o]
          /\ recalledUnits' = [recalledUnits EXCEPT ![q] = @ - n]
          /\ UNCHANGED overdrawnUnits
      BY <1>0, <2>2, <2>6, Noted DEF Rows
    <3>2. Rows'
      BY <1>0, <2>1, <2>2, <2>3, <2>4, <3>1 DEF Rows, WithinLimit, Held, QuotaRow, Op
    <3>3. Allowed!Recall(q, n)
      BY <2>5, <3>1 DEF Allowed!Recall, reservedUnits, usedUnits, recalledUnits, overdrawnUnits
    <3> QED
      BY <2>6, <3>2, <3>3 DEF AllowanceStep, Allowed!AllowanceNext
  <2>7. CASE ~(n < 0)
    <3>1. UNCHANGED <<backward, recalledUnits, overdrawnUnits>>
      BY <2>7, NothingNoted DEF recalledUnits, overdrawnUnits
    <3>2. Rows'
      BY <1>0, <2>1, <2>2, <2>3, <2>4, <2>7, <3>1 DEF Rows, WithinLimit, Held, QuotaRow
    <3>3. CASE n = 0
      BY <2>5, <3>1, <3>2, <3>3, UnitsType, NoUnits DEF AllowanceStep, allUnits, Rows
    <3>4. CASE n # 0
      <4>1. n \in 1 .. reservedUnits[q]
        BY <1>0, <2>1, <2>3, <2>5, <2>7, <3>4 DEF QuotaRow
      <4>2. Allowed!Spend(q, n)
        BY <2>5, <3>1 DEF Allowed!Spend, reservedUnits, usedUnits, recalledUnits, overdrawnUnits
      <4> QED
        BY <3>2, <4>1, <4>2 DEF AllowanceStep, Allowed!AllowanceNext, reservedUnits
    <3> QED
      BY <3>3, <3>4
  <2> QED
    BY <2>6, <2>7
<1> QED
  BY <1>1, <1>2

\* A release that matches gives reserved units back, or overdraws.
LEMMA ReleaseRows ==
  ASSUME Rows, NEW q \in Quotas, NEW n \in Int, n < 0 => n \in Amounts, NEW v,
         quota' = ReleaseQuota(q, n, v), Note(q, "release", n)
  PROVE  Rows' /\ AllowanceStep
<1>0. Limit[q] \in Nat
  BY QuotaAssumption
<1>1. CASE ~ReturnWhere(q, n, v)
  BY <1>1, NothingNoted, NothingMoved DEF ReleaseQuota
<1>2. CASE ReturnWhere(q, n, v)
  <2>1. quota[q] \in QuotaRow
    BY DEF Rows
  <2>2. /\ quota' \in [Quotas -> QuotaRow] /\ quota' # quota
        /\ quota'[q].used = quota[q].used /\ quota'[q].reserved = quota[q].reserved - n
        /\ \A r \in Quotas \ {q} : quota'[r] = quota[r]
    BY <1>0, <1>2 DEF ReleaseQuota, Rows, QuotaRow
  <2>3. /\ quota[q].reserved >= n /\ quota[q].reserved >= 0
        /\ quota[q].used >= - backward[q]["commit"]
        /\ quota[q].used + quota[q].reserved <= Limit[q] + backward[q]["release"]
    BY <1>2, <2>1 DEF ReturnWhere, Rows, WithinLimit, Held, QuotaRow
  <2>4. backward[q]["commit"] \in Nat /\ backward[q]["release"] \in Nat
    BY DEF Rows, Op
  <2>5. /\ reservedUnits' = [reservedUnits EXCEPT ![q] = @ - n]
        /\ UNCHANGED usedUnits
        /\ reservedUnits[q] = quota[q].reserved
    BY <2>2, OneRow DEF Rows, reservedUnits, usedUnits
  <2>6. CASE n < 0
    <3>1. /\ backward' \in [Quotas -> [Op -> Nat]]
          /\ backward'[q]["release"] = backward[q]["release"] - n
          /\ \A r \in Quotas, o \in Op :
               r # q \/ o # "release" => backward'[r][o] = backward[r][o]
          /\ overdrawnUnits' = [overdrawnUnits EXCEPT ![q] = @ - n]
          /\ UNCHANGED recalledUnits
      BY <2>2, <2>6, Noted DEF Rows
    <3>2. Rows'
      BY <1>0, <2>1, <2>2, <2>3, <2>4, <3>1 DEF Rows, WithinLimit, Held, QuotaRow, Op
    <3>3. Allowed!Overdraw(q, n)
      BY <2>5, <3>1 DEF Allowed!Overdraw, reservedUnits, usedUnits, recalledUnits, overdrawnUnits
    <3> QED
      BY <2>6, <3>2, <3>3 DEF AllowanceStep, Allowed!AllowanceNext
  <2>7. CASE ~(n < 0)
    <3>1. UNCHANGED <<backward, recalledUnits, overdrawnUnits>>
      BY <2>7, NothingNoted DEF recalledUnits, overdrawnUnits
    <3>2. Rows'
      BY <1>0, <2>1, <2>2, <2>3, <2>4, <2>7, <3>1 DEF Rows, WithinLimit, Held, QuotaRow
    <3>3. CASE n = 0
      BY <2>5, <3>1, <3>2, <3>3, UnitsType, NoUnits DEF AllowanceStep, allUnits, Rows
    <3>4. CASE n # 0
      <4>1. n \in 1 .. reservedUnits[q]
        BY <2>1, <2>3, <2>5, <2>7, <3>4 DEF QuotaRow
      <4>2. Allowed!GiveBack(q, n)
        BY <2>5, <3>1 DEF Allowed!GiveBack, reservedUnits, usedUnits, recalledUnits,
           overdrawnUnits
      <4> QED
        BY <3>2, <4>1, <4>2 DEF AllowanceStep, Allowed!AllowanceNext, reservedUnits
    <3> QED
      BY <3>3, <3>4
  <2> QED
    BY <2>6, <2>7
<1> QED
  BY <1>1, <1>2

-----------------------------------------------------------------------------
(* The inductive invariant of the endpoints: the rows, the calls, and that   *)
(* a row that was never inserted is empty.                                  *)

Unborn == \A q \in Quotas : quota[q].version = 0 => quota[q] = NoQuota

QInv == Rows /\ Unborn /\ call \in [Callers -> Call \union {Done}]

\* No statement writes to a row that was never inserted.
LEMMA StatementUnborn ==
  ASSUME Rows, Unborn, NEW q \in Quotas, NEW n \in Int, NEW v,
         \/ quota' = GetOrCreateQuota(q)
         \/ quota' = ReserveQuota(q, n, v)
         \/ quota' = CommitQuota(q, n, v)
         \/ quota' = ReleaseQuota(q, n, v)
  PROVE  Unborn'
BY DEF Rows, Unborn, QuotaRow, GetOrCreateQuota, NewQuota, ReserveQuota, CommitQuota, ReleaseQuota

\* Whatever the amount, a statement writes one row, and writes a row of units.
LEMMA StatementTypes ==
  ASSUME quota \in [Quotas -> QuotaRow], Unborn, NEW q \in Quotas, NEW n \in Int, NEW v,
         \/ quota' = GetOrCreateQuota(q)
         \/ quota' = ReserveQuota(q, n, v)
         \/ quota' = CommitQuota(q, n, v)
         \/ quota' = ReleaseQuota(q, n, v)
  PROVE  /\ quota' \in [Quotas -> QuotaRow]
         /\ Unborn'
         /\ \A r \in Quotas \ {q} : quota'[r] = quota[r]
<1>1. quota[q] \in QuotaRow
  OBVIOUS
<1>2. CASE quota' = GetOrCreateQuota(q)
  <2>1. quota' \in [Quotas -> QuotaRow] /\ \A r \in Quotas \ {q} : quota'[r] = quota[r]
    BY <1>1, <1>2 DEF GetOrCreateQuota, NewQuota, QuotaRow
  <2>2. quota'[q] = quota[q] \/ quota'[q].version # 0
    BY <1>1, <1>2 DEF GetOrCreateQuota, NewQuota, QuotaRow
  <2> QED
    BY <2>1, <2>2 DEF Unborn
<1>3. CASE quota' = ReserveQuota(q, n, v)
  <2>1. quota' \in [Quotas -> QuotaRow] /\ \A r \in Quotas \ {q} : quota'[r] = quota[r]
    BY <1>1, <1>3 DEF ReserveQuota, QuotaRow
  <2>2. quota'[q] = quota[q] \/ quota'[q].version # 0
    BY <1>1, <1>3 DEF ReserveQuota, QuotaRow
  <2> QED
    BY <2>1, <2>2 DEF Unborn
<1>4. CASE quota' = CommitQuota(q, n, v)
  <2>1. quota' \in [Quotas -> QuotaRow] /\ \A r \in Quotas \ {q} : quota'[r] = quota[r]
    BY <1>1, <1>4 DEF CommitQuota, QuotaRow
  <2>2. quota'[q] = quota[q] \/ quota'[q].version # 0
    BY <1>1, <1>4 DEF CommitQuota, QuotaRow
  <2> QED
    BY <2>1, <2>2 DEF Unborn
<1>5. CASE quota' = ReleaseQuota(q, n, v)
  <2>1. quota' \in [Quotas -> QuotaRow] /\ \A r \in Quotas \ {q} : quota'[r] = quota[r]
    BY <1>1, <1>5 DEF ReleaseQuota, QuotaRow
  <2>2. quota'[q] = quota[q] \/ quota'[q].version # 0
    BY <1>1, <1>5 DEF ReleaseQuota, QuotaRow
  <2> QED
    BY <2>1, <2>2 DEF Unborn
<1> QED
  BY <1>2, <1>3, <1>4, <1>5

\* A call in progress is well typed, and ending it leaves well-typed calls.
LEMMA CallTypes ==
  ASSUME call \in [Callers -> Call \union {Done}], NEW c \in Callers
  PROVE  /\ Finish(c) => call' \in [Callers -> Call \union {Done}]
         /\ call[c] # Done => /\ call[c] \in Call /\ call[c].quota \in Quotas
                              /\ call[c].amount \in Amounts
                              /\ call[c].op = "reserve" => call[c].amount > 0
<1>1. Finish(c) => call' \in [Callers -> Call \union {Done}]
  BY DEF Finish
<1>2. call[c] # Done => call[c] \in Call
  OBVIOUS
<1> QED
  BY <1>1, <1>2 DEF Call

\* Keeping the version that was read leaves well-typed calls.
LEMMA RetainType ==
  ASSUME call \in [Callers -> Call \union {Done}], NEW c \in Callers, call[c] # Done,
         quota' \in [Quotas -> QuotaRow], Retain(c)
  PROVE  call' \in [Callers -> Call \union {Done}]
<1>1. call[c] \in Call /\ quota'[call[c].quota].version \in Nat
  BY CallTypes DEF Call, QuotaRow
<1>2. PICK v \in Nat : v = quota'[call[c].quota].version
  BY <1>1
<1>3. call' = [call EXCEPT ![c] = [call[c] EXCEPT !.pc = "writing", !.version = v]]
  BY <1>2 DEF Retain
<1>4. [call[c] EXCEPT !.pc = "writing", !.version = v] \in Call
  BY <1>1 DEF Call
<1> QED
  BY <1>3, <1>4

\* Trying again, or giving up, leaves well-typed calls.
LEMMA RetryType ==
  ASSUME call \in [Callers -> Call \union {Done}], NEW c \in Callers, call[c] # Done, Retry(c)
  PROVE  call' \in [Callers -> Call \union {Done}]
<1>1. CASE call[c].attempts + 1 < Tries(call[c].op)
  <2>1. call[c] \in Call
    BY CallTypes
  <2>2. PICK k \in Nat : k = call[c].attempts + 1
    BY <2>1 DEF Call
  <2>3. call' = [call EXCEPT ![c] = [call[c] EXCEPT !.pc = "reading", !.attempts = k]]
    BY <1>1, <2>2 DEF Retry
  <2>4. [call[c] EXCEPT !.pc = "reading", !.attempts = k] \in Call
    BY <2>1 DEF Call
  <2> QED
    BY <2>3, <2>4
<1>2. CASE ~(call[c].attempts + 1 < Tries(call[c].op))
  BY <1>2, CallTypes DEF Retry
<1> QED
  BY <1>1, <1>2

\* The invariant holds of the empty table.
LEMMA QuotaInitInv == QuotaInit => QInv
<1> SUFFICES ASSUME QuotaInit PROVE QInv
  OBVIOUS
<1>1. quota \in [Quotas -> QuotaRow]
  BY DEF QuotaInit, NoQuota, QuotaRow
<1>2. /\ backward \in [Quotas -> [Op -> Nat]]
      /\ \A q \in Quotas : backward[q]["commit"] = 0 /\ backward[q]["release"] = 0
  BY DEF QuotaInit, Op
<1>3. WithinLimit /\ Unborn
  BY <1>2, QuotaAssumption DEF QuotaInit, WithinLimit, Unborn, Held, NoQuota
<1>4. call \in [Callers -> Call \union {Done}]
  BY DEF QuotaInit
<1> QED
  BY <1>1, <1>2, <1>3, <1>4 DEF QInv, Rows

\* A step that leaves the rows alone is a stutter of the allowance.
LEMMA UnchangedRows ==
  ASSUME Rows, Unborn, UNCHANGED <<quota, backward>>
  PROVE  Rows' /\ Unborn' /\ AllowanceStep
BY NothingMoved DEF Unborn

\* Every step of an endpoint keeps the invariant and is a step of the
\* allowance or a stutter.
LEMMA ServeStep ==
  ASSUME QInv, NEW c \in Callers, Serve(c)
  PROVE  QInv' /\ AllowanceStep
<1> DEFINE CallOK == call \in [Callers -> Call \union {Done}]
<1>0. Rows /\ Unborn /\ CallOK /\ call[c] # Done
  BY DEF QInv, Serve, ReserveRead, CommitRead, ReleaseRead, ReadFor, Write, WriteRefused, Done
<1>1. /\ call[c].quota \in Quotas /\ call[c].amount \in Amounts /\ Amounts \subseteq Int
      /\ call[c].op = "reserve" => call[c].amount > 0
  BY <1>0, CallTypes, QuotaAssumption
<1>2. PICK q \in Quotas, n \in Amounts : q = call[c].quota /\ n = call[c].amount
  BY <1>1
<1>3. ASSUME ReserveRead(c), UNCHANGED backward PROVE QInv' /\ AllowanceStep
  <2>1. quota' = GetOrCreateQuota(q)
    BY <1>2, <1>3 DEF ReserveRead
  <2>2. Rows' /\ AllowanceStep
    BY <1>0, <1>3, <2>1, GetOrCreateRows DEF Unborn, AllowanceStep
  <2>3. Unborn'
    BY <1>0, <1>1, <2>1, StatementUnborn
  <2>4. CallOK'
    BY <1>0, <1>3, <2>2, CallTypes, RetainType DEF ReserveRead, Rows
  <2> QED
    BY <2>2, <2>3, <2>4 DEF QInv
<1>4. ASSUME CommitRead(c) \/ ReleaseRead(c), UNCHANGED backward PROVE QInv' /\ AllowanceStep
  <2>1. Rows' /\ Unborn' /\ AllowanceStep
    BY <1>0, <1>4, UnchangedRows DEF CommitRead, ReleaseRead
  <2>2. CallOK'
    BY <1>0, <1>4, <2>1, CallTypes, RetainType DEF CommitRead, ReleaseRead, Rows
  <2> QED
    BY <2>1, <2>2 DEF QInv
<1>5. ASSUME NEW op \in Op, Write(c, op)
      PROVE  QInv' /\ AllowanceStep
  <2>1. PICK v : v = call[c].version
    OBVIOUS
  <2>2. Note(q, op, n) /\ call[c].op = op
    BY <1>2, <1>5 DEF Write
  <2>3. CASE op = "reserve"
    <3>1. quota' = ReserveQuota(q, n, v)
      BY <1>2, <1>5, <2>1, <2>3 DEF Write
    <3>2. n \in Nat \ {0}
      BY <1>1, <1>2, <2>2, <2>3
    <3>3. UNCHANGED backward
      BY <2>2, <3>2, NothingNoted
    <3>4. Rows' /\ AllowanceStep
      BY <1>0, <3>1, <3>2, <3>3, ReserveRows
    <3> QED
      BY <1>0, <1>1, <1>5, <3>1, <3>4, StatementUnborn, CallTypes, RetryType DEF Write, QInv
  <2>4. CASE op = "commit"
    <3>1. quota' = CommitQuota(q, n, v)
      BY <1>2, <1>5, <2>1, <2>4 DEF Write
    <3>2. Rows' /\ AllowanceStep
      BY <1>0, <2>2, <2>4, <3>1, CommitRows
    <3> QED
      BY <1>0, <1>1, <1>5, <3>1, <3>2, StatementUnborn, CallTypes, RetryType DEF Write, QInv
  <2>5. CASE op = "release"
    <3>1. quota' = ReleaseQuota(q, n, v)
      BY <1>2, <1>5, <2>1, <2>5 DEF Write
    <3>2. Rows' /\ AllowanceStep
      BY <1>0, <1>1, <2>2, <2>5, <3>1, ReleaseRows
    <3> QED
      BY <1>0, <1>1, <1>5, <3>1, <3>2, StatementUnborn, CallTypes, RetryType DEF Write, QInv
  <2> QED
    BY <2>3, <2>4, <2>5 DEF Op
<1>6. ASSUME WriteRefused(c), UNCHANGED backward PROVE QInv' /\ AllowanceStep
  <2>1. Rows' /\ Unborn' /\ AllowanceStep
    BY <1>0, <1>6, UnchangedRows DEF WriteRefused
  <2>2. CallOK'
    BY <1>0, <1>6, CallTypes, RetryType DEF WriteRefused
  <2> QED
    BY <2>1, <2>2 DEF QInv
<1> QED
  BY <1>3, <1>4, <1>5, <1>6 DEF Serve

\* So does every step of the quota service.
LEMMA QuotaStep ==
  ASSUME QInv, [QuotaNext]_quotaVars
  PROVE  QInv' /\ AllowanceStep
<1>1. CASE UNCHANGED quotaVars
  BY <1>1, UnchangedRows DEF quotaVars, QInv
<1>2. ASSUME NEW c \in Callers, NEW op \in Op, NEW q \in Quotas, NEW n \in Amounts,
             Arrive(c, op, q, n)
      PROVE  QInv' /\ AllowanceStep
  <2>1. Rows' /\ Unborn' /\ AllowanceStep
    BY <1>2, UnchangedRows DEF QInv, Arrive
  <2>2. call' \in [Callers -> Call \union {Done}]
    BY <1>2 DEF QInv, Arrive, Call
  <2> QED
    BY <2>1, <2>2 DEF QInv
<1>3. ASSUME NEW c \in Callers, Serve(c) PROVE QInv' /\ AllowanceStep
  BY <1>3, ServeStep
<1>4. ASSUME NEW c \in Callers, Abandon(c) PROVE QInv' /\ AllowanceStep
  BY <1>4, UnchangedRows, CallTypes DEF QInv, Abandon
<1> QED
  BY <1>1, <1>2, <1>3, <1>4 DEF QuotaNext

\* Every step of the quota service leaves well-typed rows and calls, whatever
\* the amounts.
LEMMA EndpointTypes ==
  ASSUME QuotaTypeOK, Unborn, [QuotaNext]_quotaVars
  PROVE  QuotaTypeOK' /\ Unborn'
<1> DEFINE RowsOK == quota \in [Quotas -> QuotaRow] /\ Unborn
           CallsOK == call \in [Callers -> Call \union {Done}]
           NotesOK == backward \in [Quotas -> [Op -> Nat]]
<1>0. RowsOK /\ CallsOK /\ NotesOK
  BY DEF QuotaTypeOK
<1>a. NotesOK'
  <2>1. CASE UNCHANGED backward
    BY <1>0, <2>1
  <2>2. ASSUME NEW c \in Callers, NEW op \in Op, Write(c, op) PROVE NotesOK'
    <3>1. call[c] # Done /\ call[c].op = op
      BY <2>2 DEF Write, Done
    <3>2. PICK q \in Quotas, n \in Int :
            q = call[c].quota /\ n = call[c].amount /\ (op = "reserve" => n > 0)
      BY <1>0, <3>1, CallTypes, QuotaAssumption
    <3>3. Note(q, op, n)
      BY <2>2, <3>2 DEF Write, Note
    <3>4. CASE n < 0 /\ quota' # quota
      <4>1. op \in {"commit", "release"}
        BY <3>2, <3>4 DEF Op
      <4> QED
        BY <1>0, <3>3, <3>4, <4>1, Noted
    <3>5. CASE ~(n < 0) \/ quota' = quota
      BY <2>1, <3>3, <3>5, NothingNoted
    <3> QED
      BY <3>4, <3>5
  <2> QED
    BY <2>1, <2>2 DEF QuotaNext, quotaVars, Arrive, Abandon, Serve
<1> SUFFICES RowsOK' /\ CallsOK'
  BY <1>a DEF QuotaTypeOK
<1>1. ASSUME UNCHANGED quota PROVE RowsOK'
  BY <1>0, <1>1 DEF Unborn
<1>2. CASE UNCHANGED quotaVars
  BY <1>0, <1>1, <1>2 DEF quotaVars
<1>3. ASSUME NEW c \in Callers, NEW op \in Op, NEW q \in Quotas, NEW n \in Amounts,
             Arrive(c, op, q, n)
      PROVE  RowsOK' /\ CallsOK'
  BY <1>0, <1>1, <1>3 DEF Arrive, Call
<1>4. ASSUME NEW c \in Callers, Abandon(c) PROVE RowsOK' /\ CallsOK'
  BY <1>0, <1>1, <1>4, CallTypes DEF Abandon
<1>5. ASSUME NEW c \in Callers, Serve(c) PROVE RowsOK' /\ CallsOK'
  <2>0. call[c] # Done /\ call[c].quota \in Quotas /\ call[c].amount \in Int
    <3>1. call[c] # Done
      BY <1>5 DEF Serve, ReserveRead, CommitRead, ReleaseRead, ReadFor, Write, WriteRefused, Done
    <3> QED
      BY <1>0, <3>1, CallTypes, QuotaAssumption
  <2>1. CASE ReserveRead(c)
    <3>1. RowsOK'
      BY <1>0, <2>0, <2>1, StatementTypes DEF ReserveRead
    <3> QED
      BY <1>0, <2>0, <2>1, <3>1, CallTypes, RetainType DEF ReserveRead
  <2>2. CASE CommitRead(c) \/ ReleaseRead(c)
    <3>1. RowsOK'
      BY <1>1, <2>2 DEF CommitRead, ReleaseRead
    <3> QED
      BY <1>0, <2>0, <2>2, <3>1, CallTypes, RetainType DEF CommitRead, ReleaseRead
  <2>3. ASSUME NEW op \in Op, Write(c, op) PROVE RowsOK' /\ CallsOK'
    <3>1. PICK q \in Quotas, n \in Int : q = call[c].quota /\ n = call[c].amount
      BY <2>0
    <3>2. PICK v : \/ quota' = ReserveQuota(q, n, v)
                   \/ quota' = CommitQuota(q, n, v)
                   \/ quota' = ReleaseQuota(q, n, v)
      BY <2>3, <3>1 DEF Write
    <3>3. RowsOK'
      BY <1>0, <3>2, StatementTypes
    <3> QED
      BY <1>0, <2>0, <2>3, <3>3, CallTypes, RetryType DEF Write
  <2>4. CASE WriteRefused(c)
    BY <1>0, <1>1, <2>0, <2>4, CallTypes, RetryType DEF WriteRefused
  <2> QED
    BY <1>5, <2>1, <2>2, <2>3, <2>4 DEF Serve
<1> QED
  BY <1>2, <1>3, <1>4, <1>5 DEF QuotaNext

\* Rows and calls stay within their domains, whatever the amounts.
THEOREM QuotaTypeCorrect == QuotaSpec => []QuotaTypeOK
<1>1. QuotaInit => QuotaTypeOK /\ Unborn
  BY QuotaInitInv DEF QInv, Rows, QuotaTypeOK
<1>2. QuotaTypeOK /\ Unborn /\ [QuotaNext]_quotaVars => (QuotaTypeOK /\ Unborn)'
  BY EndpointTypes
<1> QED
  BY <1>1, <1>2, PTL DEF QuotaSpec

\* A day's reserved and used units never exceed its limit, and neither goes
\* below zero, but for the units of negative amounts that clients committed or
\* released: whatever amounts the clients send.
THEOREM LimitKept == QuotaSpec => [](QuotaTypeOK /\ WithinLimit)
<1>1. QInv /\ [QuotaNext]_quotaVars => QInv'
  BY QuotaStep
<1>2. QInv => QuotaTypeOK /\ WithinLimit
  BY DEF QInv, Rows, QuotaTypeOK
<1> QED
  BY <1>1, <1>2, QuotaInitInv, PTL DEF QuotaSpec

\* The endpoints, with their stale reads and retries, implement the allowance,
\* for amounts of either sign.
THEOREM QuotaRefinement == QuotaSpec => AllowanceSpec
<1>1. QInv /\ [QuotaNext]_quotaVars => QInv'
  BY QuotaStep
<1>2. QuotaInit => Allowed!AllowanceInit
  BY DEF QuotaInit, Allowed!AllowanceInit, NoQuota, Op
<1>3. QInv /\ [QuotaNext]_quotaVars => [Allowed!AllowanceNext]_Allowed!allowanceVars
  BY QuotaStep DEF AllowanceStep, Allowed!allowanceVars, allUnits, reservedUnits, usedUnits,
     recalledUnits, overdrawnUnits
<1> QED
  BY <1>1, <1>2, <1>3, QuotaInitInv, PTL DEF QuotaSpec, AllowanceSpec, Allowed!AllowanceSpec
=============================================================================
