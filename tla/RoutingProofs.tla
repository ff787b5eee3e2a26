---------------------------- MODULE RoutingProofs ----------------------------
(* Theorems about Routing, for every set of reservations and dispatchers,   *)
(* whatever the zones of their deadlines, and any number of faults.         *)
EXTENDS Routing, TLAPS

\* A reservation that does not exist has no history.
Unborn == \A w \in Windows : ~Exists(w) => window[w] = NoRow

\* A copy is never ahead of its row.
Behindhand(c) == Exists(c.window) /\ c.version <= window[c.window].version

Current(c) == c.version = window[c.window].version

\* A change about to be written under the row's version is an edge.
Asked(d) ==
  job[d].op = "change" =>
    LET c == job[d].copy IN
      /\ Behindhand(c)
      /\ Current(c) => CanTransition(window[c.window].status, job[d].target)

\* Ids of a batch are nobody else's until they are inserted.
Reserved ==
  \A d \in Dispatchers :
    job[d].op = "batch" =>
      /\ job[d].left \subseteq job[d].items
      /\ \A w \in job[d].left : ~Exists(w)
      /\ \A e \in Dispatchers \ {d} :
           job[e].op = "batch" => job[d].items \intersect job[e].items = {}

\* What the engine's lists were selected by is true of the rows that have not
\* changed since.
Selected(stage) ==
  CASE stage = "activate" -> {"allocated"}
    [] stage = "escalate" -> {"effective", "occupied", "escalated"}
    [] OTHER -> {}

Listed(c) ==
  /\ Behindhand(c)
  /\ Current(c) => /\ window[c.window].level = c.level
                   /\ window[c.window].status \in Selected(engine.stage)

EngineInv ==
  /\ engine.stage = "rest" => engine.rows = {}
  /\ \A c \in engine.rows : Listed(c)
  /\ engine.unrecorded # NoCopy =>
       LET c == engine.unrecorded IN
         /\ window[c.window].level = c.level + 1
         /\ \A i \in 1 .. Len(trail[c.window]) : trail[c.window][i] <= c.level

RInv ==
  /\ TypeOK
  /\ Unborn
  /\ \A d \in Dispatchers : Asked(d)
  /\ Reserved
  /\ EngineInv
  /\ Recorded

-----------------------------------------------------------------------------
(* Steps of the table.                                                      *)

status == [w \in Windows |-> window[w].status]

Moves == Life!LifecycleNext \/ UNCHANGED status

\* Rows do not disappear, and a row whose version stays is the same row.
Onward ==
  \A w \in Windows :
    Exists(w) => /\ Exists(w)'
                 /\ window[w].version <= window'[w].version
                 /\ window'[w].version = window[w].version => window'[w] = window[w]

\* What is known of a copy survives every step of the table.
LEMMA CopiesKept ==
  ASSUME Onward, TypeOK, TypeOK', NEW c \in CopyOf, Behindhand(c)
  PROVE  /\ Behindhand(c)'
         /\ Current(c)' => Current(c) /\ window'[c.window] = window[c.window]
BY DEF Onward, TypeOK, Row, CopyOf, Behindhand, Current

\* An INSERT.
LEMMA Inserting ==
  ASSUME TypeOK, Unborn, NEW w \in Windows, ~Exists(w),
         window' = [window EXCEPT ![w] = NewRow]
  PROVE  /\ window' \in [Windows -> Row]
         /\ Unborn' /\ Onward /\ Moves
         /\ \A v \in Windows : window'[v].level = window[v].level
<1>1. window' \in [Windows -> Row]
  BY DEF TypeOK, Row, NewRow, Status
<1>2. Unborn'
  BY <1>1 DEF Unborn, TypeOK, Exists, NewRow
<1>3. Onward
  BY DEF Onward, TypeOK, Row, Exists
<1>4. \A v \in Windows : window'[v].level = window[v].level
  BY DEF TypeOK, Unborn, NoRow, NewRow
<1>5. Moves
  <2>1. status' = [status EXCEPT ![w] = "allocated"] /\ status[w] = "absent"
    BY DEF status, TypeOK, Exists, NewRow
  <2>2. Life!Bear(w)
    BY <2>1 DEF Life!Bear, status
  <2> QED
    BY <2>2 DEF Moves, Life!LifecycleNext
<1> QED
  BY <1>1, <1>2, <1>3, <1>4, <1>5

\* What a request holds.
LEMMA JobType ==
  ASSUME TypeOK, NEW d \in Dispatchers
  PROVE  /\ job[d].op = "change" => job[d].copy \in CopyOf /\ job[d].target \in Status
         /\ job[d].op = "batch" => /\ job[d] \in Job
                                  /\ job[d].items \in SUBSET Windows
                                  /\ job[d].left \in SUBSET Windows
<1>1. job[d] \in Job \/ job[d] = Idle
  BY DEF TypeOK
<1>2. CASE job[d] = Idle
  BY <1>2 DEF Idle
<1>3. CASE job[d] \in [op : {"change"}, copy : CopyOf, target : Status]
  BY <1>3
<1>4. CASE job[d] \in [op : {"batch"}, items : SUBSET Windows, left : SUBSET Windows]
  BY <1>4 DEF Job
<1> QED
  BY <1>1, <1>2, <1>3, <1>4 DEF Job

\* A guarded UPDATE that sets the status along an edge, or leaves it.
LEMMA Updating ==
  ASSUME TypeOK, Unborn, NEW w \in Windows, ReservationWhere(w, window[w].version),
         NEW r \in Row, r.status \in Status, r.version = window[w].version + 1,
         r.status = window[w].status \/ CanTransition(window[w].status, r.status),
         window' = [window EXCEPT ![w] = r]
  PROVE  window' \in [Windows -> Row] /\ Unborn' /\ Onward /\ Moves
<1>1. window' \in [Windows -> Row]
  BY DEF TypeOK, Row
<1>2. window'[w].status # "absent" /\ window'[w].version # window[w].version
  BY DEF TypeOK, Row, Status
<1>a. Unborn'
  BY <1>1, <1>2 DEF Unborn, TypeOK, Exists
<1>b. Onward
  BY <1>2 DEF Onward, TypeOK, Row, Exists
<1>3. status' = [status EXCEPT ![w] = r.status]
  BY DEF status, TypeOK
<1>c. Moves
  <2>1. CASE r.status = window[w].status
    BY <1>3, <2>1 DEF status, Moves
  <2>2. CASE CanTransition(window[w].status, r.status)
    <3>1. <<window[w].status, r.status>> \in Transitions
      BY <2>2 DEF CanTransition
    <3>2. /\ status[w] = window[w].status
          /\ status' = [status EXCEPT ![w] = <<window[w].status, r.status>>[2]]
      BY <1>3 DEF status
    <3>3. Life!Move(w)
      BY <3>1, <3>2 DEF Life!Move, status
    <3> QED
      BY <3>3 DEF Moves, Life!LifecycleNext
  <2> QED
    BY <2>1, <2>2
<1> QED
  BY <1>1, <1>a, <1>b, <1>c

\* UPDATE ... SET status: the state machine need have been asked only if the
\* row is still the one that was read.
LEMMA StatusUpdating ==
  ASSUME TypeOK, Unborn, NEW w \in Windows, NEW s \in Status, NEW v \in Nat,
         ReservationWhere(w, v) => CanTransition(window[w].status, s),
         window' = UpdateReservationStatus(w, s, v)
  PROVE  /\ window' \in [Windows -> Row]
         /\ Unborn' /\ Onward /\ Moves
         /\ \A x \in Windows : window'[x].level = window[x].level /\ (Exists(x)' => Exists(x))
<1>1. CASE ReservationWhere(w, v)
  <2>1. window[w] \in Row /\ window \in [Windows -> Row]
    BY DEF TypeOK
  <2>2. window[w].version + 1 \in Nat
    BY <2>1 DEF Row
  <2> DEFINE r == [window[w] EXCEPT !.status = s, !.version = window[w].version + 1]
  <2>3. r \in Row
    BY <2>1, <2>2 DEF Row
  <2>4. r.status = s /\ r.level = window[w].level /\ r.version = window[w].version + 1
    BY <2>1 DEF Row
  <2>5. window' = [window EXCEPT ![w] = r]
    BY <1>1, <2>1 DEF UpdateReservationStatus
  <2> HIDE DEF r
  <2>6. window' \in [Windows -> Row] /\ Unborn' /\ Onward /\ Moves
    BY <1>1, <2>3, <2>4, <2>5, Updating DEF ReservationWhere
  <2>7. \A x \in Windows : window'[x].level = window[x].level /\ (Exists(x)' => Exists(x))
    BY <1>1, <2>1, <2>4, <2>5 DEF Exists, ReservationWhere
  <2> QED
    BY <2>6, <2>7
<1>2. CASE ~ReservationWhere(w, v)
  <2>1. UNCHANGED window
    BY <1>2 DEF UpdateReservationStatus
  <2> QED
    BY <2>1 DEF Onward, Moves, status, Unborn, Exists, TypeOK, Row
<1> QED
  BY <1>1, <1>2

-----------------------------------------------------------------------------
(* Requests.                                                                *)

\* A step of the table that leaves the levels alone leaves what the engine
\* knows.
LEMMA EngineKept ==
  ASSUME TypeOK, TypeOK', EngineInv, Recorded, Onward,
         \A w \in Windows : window'[w].level = window[w].level,
         UNCHANGED <<trail, engine, faults>>
  PROVE  EngineInv' /\ Recorded'
<1>1. \A c \in engine.rows : Listed(c)'
  <2> SUFFICES ASSUME NEW c \in engine.rows PROVE Listed(c)'
    OBVIOUS
  <2>1. c \in CopyOf /\ Listed(c)
    BY DEF TypeOK, Engine, EngineInv
  <2> QED
    BY <2>1, CopiesKept DEF Listed
<1>2. engine.unrecorded # NoCopy => engine.unrecorded \in CopyOf
  BY DEF TypeOK, Engine
<1>3. EngineInv'
  BY <1>1, <1>2 DEF EngineInv, CopyOf
<1>4. Recorded'
  BY DEF Recorded, Missing
<1> QED
  BY <1>3, <1>4

\* The same for what other requests know; those of a batch must still be free.
LEMMA AskedKept ==
  ASSUME TypeOK, TypeOK', Onward, NEW d \in Dispatchers, Asked(d), job'[d] = job[d]
  PROVE  Asked(d)'
<1> SUFFICES ASSUME job[d].op = "change" PROVE Asked(d)'
  BY DEF Asked
<1>1. job[d].copy \in CopyOf
  BY JobType
<1> QED
  BY <1>1, CopiesKept DEF Asked

\* The ids of batches stay their own when nobody inserts.
LEMMA ReservedKept ==
  ASSUME Reserved, UNCHANGED <<window>>, NEW d \in Dispatchers,
         job' = [job EXCEPT ![d] = Idle], job \in [Dispatchers -> Job \union {Idle}]
  PROVE  Reserved'
<1>1. \A e \in Dispatchers : job'[e].op = "batch" => job'[e] = job[e] /\ e # d
  BY DEF Idle
<1> QED
  BY <1>1 DEF Reserved, Exists

LEMMA CreateKeeps ==
  ASSUME RInv, NEW d \in Dispatchers, NEW w \in Windows, Create(d, w),
         UNCHANGED <<trail, phase, overdue, engine, faults>>
  PROVE  RInv' /\ Moves
<1> USE DEF RInv, Create, Fresh
<1>1. /\ window' \in [Windows -> Row]
      /\ Unborn' /\ Onward /\ Moves
      /\ \A v \in Windows : window'[v].level = window[v].level
  BY Inserting
<1>2. TypeOK'
  BY <1>1 DEF TypeOK
<1>3. EngineInv' /\ Recorded'
  BY <1>1, <1>2, EngineKept
<1>4. \A e \in Dispatchers : Asked(e)'
  BY <1>1, <1>2, AskedKept
<1>5. Reserved'
  BY JobType DEF Reserved, Exists, TypeOK
<1> QED
  BY <1>1, <1>2, <1>3, <1>4, <1>5

LEMMA BatchArrivesKeeps ==
  ASSUME RInv, NEW d \in Dispatchers, NEW items \in SUBSET Windows, BatchArrives(d, items),
         UNCHANGED <<trail, phase, overdue, engine, faults>>
  PROVE  RInv' /\ Moves
<1> USE DEF RInv, BatchArrives, Fresh
<1> DEFINE b == [op |-> "batch", items |-> items, left |-> items]
<1>1. job' = [job EXCEPT ![d] = b] /\ b \in Job
  BY DEF Job
<1>2. TypeOK'
  BY <1>1 DEF TypeOK
<1>3. Onward /\ Moves /\ Unborn'
  BY DEF Onward, Moves, status, Unborn, Exists, TypeOK, Row
<1>4. EngineInv' /\ Recorded'
  BY <1>2, <1>3, EngineKept
<1>5. \A e \in Dispatchers : Asked(e)'
  BY <1>1, <1>2, <1>3, AskedKept DEF Asked, TypeOK
<1>6. Reserved'
  BY <1>1 DEF Reserved, Exists, TypeOK
<1> QED
  BY <1>2, <1>3, <1>4, <1>5, <1>6

LEMMA BatchInsertKeeps ==
  ASSUME RInv, NEW d \in Dispatchers, NEW w \in Windows, BatchInsert(d, w),
         UNCHANGED <<trail, phase, overdue, engine, faults>>
  PROVE  RInv' /\ Moves
<1> USE DEF RInv, BatchInsert
<1>1. CASE w \in Orphans
  <2>1. job' = [job EXCEPT ![d] = Idle] /\ UNCHANGED window
    BY <1>1
  <2>2. TypeOK'
    BY <2>1 DEF TypeOK
  <2>3. Onward /\ Moves /\ Unborn'
    BY <2>1 DEF Onward, Moves, status, Unborn, Exists, TypeOK, Row
  <2>4. EngineInv' /\ Recorded'
    BY <2>1, <2>2, <2>3, EngineKept
  <2>5. \A e \in Dispatchers : Asked(e)'
    BY <2>1, <2>2, <2>3, AskedKept DEF Asked, TypeOK, Idle
  <2>6. Reserved'
    BY <2>1, ReservedKept DEF TypeOK
  <2> QED
    BY <2>2, <2>3, <2>4, <2>5, <2>6
<1>2. CASE w \notin Orphans
  <2> DEFINE b == IF job[d].left = {w} THEN Idle ELSE [job[d] EXCEPT !.left = @ \ {w}]
  <2>0. job' = [job EXCEPT ![d] = IF job[d].left = {w} THEN Idle
                                  ELSE [job[d] EXCEPT !.left = job[d].left \ {w}]]
    BY <1>2 DEF BatchInsert
  <2>1. window' = [window EXCEPT ![w] = NewRow] /\ job' = [job EXCEPT ![d] = b]
    BY <1>2, <2>0
  <2>2. ~Exists(w) /\ w \in job[d].left /\ job[d].op = "batch"
    BY DEF Reserved
  <2>3. b \in Job \union {Idle}
    BY <2>2, JobType DEF Job
  <2>4. /\ window' \in [Windows -> Row]
        /\ Unborn' /\ Onward /\ Moves
        /\ \A v \in Windows : window'[v].level = window[v].level
    BY <2>1, <2>2, Inserting
  <2>5. TypeOK'
    BY <2>1, <2>3, <2>4 DEF TypeOK
  <2>6. EngineInv' /\ Recorded'
    BY <2>4, <2>5, EngineKept
  <2>7. b.op # "change"
    BY <2>2, JobType DEF Job, Idle
  <2>8. \A e \in Dispatchers : Asked(e)'
    BY <2>1, <2>4, <2>5, <2>7, AskedKept DEF Asked, TypeOK
  <2>9. b.op = "batch" => b.items = job[d].items /\ b.left = job[d].left \ {w}
    BY <2>2, JobType DEF Job, Idle
  <2>a. \A v \in Windows \ {w} : Exists(v)' = Exists(v)
    BY <2>1 DEF Exists, TypeOK
  <2>b. \A e \in Dispatchers \ {d} : job'[e] = job[e] /\ (job[e].op = "batch" => w \notin job[e].items)
    BY <2>1, <2>2 DEF Reserved, TypeOK
  <2>c. job'[d] = b
    BY <2>1 DEF TypeOK
  <2>d. Reserved'
    <3>1. ASSUME NEW e \in Dispatchers, job'[e].op = "batch"
          PROVE  /\ job[e].op = "batch" /\ job'[e].items = job[e].items
                 /\ job'[e].left \subseteq job[e].left /\ w \notin job'[e].left
      <4>1. CASE e = d
        BY <2>2, <2>9, <2>c, <3>1, <4>1
      <4>2. CASE e # d
        <5>1. job'[e] = job[e] /\ w \notin job[e].items
          BY <2>b, <3>1, <4>2
        <5>2. job[e].left \subseteq job[e].items
          BY <3>1, <5>1 DEF Reserved
        <5> QED
          BY <3>1, <5>1, <5>2
      <4> QED
        BY <4>1, <4>2
    <3>2. \A e \in Dispatchers : job[e].op = "batch" => job[e].left \subseteq Windows
      BY JobType
    <3> QED
      BY <2>a, <3>1, <3>2 DEF Reserved
  <2> QED
    BY <2>4, <2>5, <2>6, <2>8, <2>d
<1> QED
  BY <1>1, <1>2

LEMMA ChangeReadKeeps ==
  ASSUME RInv, NEW d \in Dispatchers, NEW w \in Windows, NEW target \in Status,
         ChangeRead(d, w, target),
         UNCHANGED <<trail, phase, overdue, engine, faults>>
  PROVE  RInv' /\ Moves
<1> USE DEF RInv, ChangeRead
<1> DEFINE b == [op |-> "change", copy |-> Copy(w), target |-> target]
<1>1. Copy(w) \in CopyOf
  BY DEF Copy, CopyOf, TypeOK, Row
<1>2. job' = [job EXCEPT ![d] = b] /\ b \in Job
  BY <1>1 DEF Job
<1>3. TypeOK'
  BY <1>2 DEF TypeOK
<1>4. Onward /\ Moves /\ Unborn'
  BY DEF Onward, Moves, status, Unborn, Exists, TypeOK, Row
<1>5. EngineInv' /\ Recorded'
  BY <1>3, <1>4, EngineKept
<1>6. Asked(d)'
  <2>1. job'[d] = b
    BY <1>2 DEF TypeOK
  <2>2. Copy(w).window = w /\ Copy(w).version = window[w].version
    BY DEF Copy
  <2> QED
    BY <2>1, <2>2 DEF Asked, Behindhand, Exists, TypeOK, Row
<1>7. \A e \in Dispatchers : Asked(e)'
  BY <1>2, <1>3, <1>4, <1>6, AskedKept DEF TypeOK
<1>8. Reserved'
  BY <1>2 DEF Reserved, Exists, TypeOK
<1> QED
  BY <1>3, <1>4, <1>5, <1>7, <1>8

\* A dispatcher's UPDATE matches only the row it has read, whose edge is still
\* one.
LEMMA ChangeWriteKeeps ==
  ASSUME RInv, NEW d \in Dispatchers, ChangeWrite(d),
         UNCHANGED <<trail, phase, overdue, engine, faults>>
  PROVE  RInv' /\ Moves
<1> USE DEF RInv, ChangeWrite
<1> DEFINE c == job[d].copy
<1>1. c \in CopyOf /\ job[d].target \in Status /\ c.window \in Windows /\ c.version \in Nat
  BY JobType DEF CopyOf
<1>a. ReservationWhere(c.window, c.version) => CanTransition(window[c.window].status, job[d].target)
  BY DEF Asked, Current, ReservationWhere
<1>2. /\ window' \in [Windows -> Row]
      /\ Unborn' /\ Onward /\ Moves
      /\ \A v \in Windows : window'[v].level = window[v].level /\ (Exists(v)' => Exists(v))
  BY <1>1, <1>a, StatusUpdating
<1>3. TypeOK'
  BY <1>2 DEF TypeOK
<1>4. EngineInv' /\ Recorded'
  BY <1>2, <1>3, EngineKept
<1>5. \A e \in Dispatchers : Asked(e)'
  BY <1>2, <1>3, AskedKept DEF Asked, TypeOK, Idle
<1>6. Reserved'
  <2>1. \A e \in Dispatchers : job'[e].op = "batch" => job'[e] = job[e] /\ e # d
    BY DEF Idle, TypeOK
  <2>2. \A e \in Dispatchers : job[e].op = "batch" => job[e].left \subseteq Windows
    BY JobType
  <2> QED
    BY <1>2, <2>1, <2>2 DEF Reserved
<1> QED
  BY <1>2, <1>3, <1>4, <1>5, <1>6

\* Requests that end give up what they hold.
LEMMA RequestsEnd ==
  ASSUME RInv, job' \in [Dispatchers -> Job \union {Idle}],
         \A d \in Dispatchers : job'[d] = job[d] \/ job'[d] = Idle,
         UNCHANGED window
  PROVE  (\A d \in Dispatchers : Asked(d)') /\ Reserved' /\ Unborn' /\ Moves
<1> USE DEF RInv
<1>1. \A d \in Dispatchers : job'[d] = job[d] \/ (job'[d].op # "batch" /\ job'[d].op # "change")
  BY DEF Idle
<1>2. \A d \in Dispatchers : Asked(d)'
  BY <1>1 DEF Asked, Behindhand, Current, Exists
<1>3. Reserved'
  BY <1>1 DEF Reserved, Exists
<1> QED
  BY <1>2, <1>3 DEF Unborn, Exists, Moves, status

LEMMA RequestFailsKeeps ==
  ASSUME RInv, NEW d \in Dispatchers, RequestFails(d)
  PROVE  RInv' /\ Moves
<1> USE RoutingAssumption DEF RInv, RequestFails, Fault
<1>1. job' = [job EXCEPT ![d] = Idle] /\ UNCHANGED window
  OBVIOUS
<1>2. faults' \in 0 .. MaxFaults /\ faults' = faults + 1
  BY DEF TypeOK
<1>3. TypeOK'
  BY <1>1, <1>2 DEF TypeOK
<1>4. (\A e \in Dispatchers : Asked(e)') /\ Reserved' /\ Unborn' /\ Moves
  BY <1>1, RequestsEnd DEF TypeOK
<1>5. EngineInv'
  BY <1>1 DEF EngineInv, Listed, Behindhand, Current, Exists
<1>6. Recorded'
  BY <1>2, <1>1 DEF Recorded, Missing, TypeOK, Row
<1> QED
  BY <1>3, <1>4, <1>5, <1>6

\* A record that is given up is one more missing, for one more fault.
LEMMA CrashKeeps ==
  ASSUME RInv, Crash
  PROVE  RInv' /\ Moves
<1> USE RoutingAssumption DEF RInv, Crash, Fault
<1>1. job' = [d \in Dispatchers |-> Idle] /\ UNCHANGED window
  OBVIOUS
<1>2. faults' \in 0 .. MaxFaults /\ faults' = faults + 1 /\ faults \in Nat
  BY DEF TypeOK
<1>3. engine' = AtRest /\ AtRest \in Engine
  BY DEF AtRest, Engine
<1>4. TypeOK'
  BY <1>1, <1>2, <1>3 DEF TypeOK
<1>5. (\A e \in Dispatchers : Asked(e)') /\ Reserved' /\ Unborn' /\ Moves
  BY <1>1, RequestsEnd DEF TypeOK
<1>6. EngineInv'
  BY <1>3 DEF EngineInv, AtRest
<1>7. Recorded'
  <2>1. \A w \in Windows : window[w].level \in Nat /\ Len(trail[w]) \in Nat
    BY DEF TypeOK, Row
  <2>2. \A w \in Windows : Missing(w)' \in Missing(w) .. Missing(w) + 1 /\ Missing(w) \in Int
    BY <1>3, <2>1 DEF Missing, AtRest
  <2>3. \A w \in Windows : Missing(w)' \in 0 .. faults'
    BY <1>2, <2>2 DEF Recorded
  <2> QED
    BY <2>3 DEF Recorded
<1> QED
  BY <1>4, <1>5, <1>6, <1>7

-----------------------------------------------------------------------------
(* The engine and the clock.                                                *)

\* A step of the engine leaves the requests alone.
LEMMA RequestsKept ==
  ASSUME RInv, TypeOK', Onward, Unborn',
         \A w \in Windows : Exists(w)' => Exists(w),
         UNCHANGED job
  PROVE  (\A d \in Dispatchers : Asked(d)') /\ Reserved'
<1> USE DEF RInv
<1>1. \A d \in Dispatchers : Asked(d)'
  BY AskedKept
<1>2. \A d \in Dispatchers : job[d].op = "batch" => job[d].left \subseteq Windows
  BY JobType
<1>3. Reserved'
  BY <1>2 DEF Reserved
<1> QED
  BY <1>1, <1>3

\* A SELECT: a copy just made is its row.
LEMMA Scanning ==
  ASSUME RInv, NEW found \in SUBSET Windows, NEW stage \in {"activate", "escalate"},
         \A w \in found : Exists(w) /\ window[w].status \in Selected(stage),
         engine' = [engine EXCEPT !.stage = stage, !.rows = {Copy(w) : w \in found}],
         UNCHANGED <<window, trail, phase, overdue, job, faults>>
  PROVE  RInv' /\ Moves
<1> USE DEF RInv
<1> DEFINE rows == {Copy(w) : w \in found}
<1>1. engine'.stage = stage /\ engine'.rows = rows /\ engine'.unrecorded = engine.unrecorded
  BY DEF TypeOK, Engine
<1>2. ASSUME NEW c \in rows PROVE c \in CopyOf /\ Listed(c)'
  <2>1. PICK w \in found : c = Copy(w)
    OBVIOUS
  <2>2. window[w] \in Row
    BY DEF TypeOK
  <2>3. c \in CopyOf /\ c.window = w /\ c.version = window[w].version /\ c.level = window[w].level
    BY <2>1, <2>2 DEF Copy, CopyOf, Row
  <2>4. Behindhand(c)'
    BY <2>2, <2>3 DEF Behindhand, Exists, Row
  <2> QED
    BY <1>1, <2>3, <2>4 DEF Listed
<1>3. engine' \in Engine
  BY <1>2 DEF TypeOK, Engine
<1>4. TypeOK'
  BY <1>3 DEF TypeOK
<1>5. Onward /\ Moves /\ Unborn' /\ \A w \in Windows : Exists(w)' => Exists(w)
  BY DEF Onward, Moves, status, Unborn, Exists, TypeOK, Row
<1>6. (\A d \in Dispatchers : Asked(d)') /\ Reserved'
  BY <1>4, <1>5, RequestsKept
<1>7. EngineInv'
  BY <1>1, <1>2 DEF EngineInv
<1>8. Recorded'
  BY <1>1 DEF Recorded, Missing
<1> QED
  BY <1>4, <1>5, <1>6, <1>7, <1>8

LEMMA ActivateScanKeeps ==
  ASSUME RInv, ActivateScan, UNCHANGED <<phase, overdue, job, faults>>
  PROVE  RInv' /\ Moves
<1> DEFINE found == {x \in Windows : window[x].status = "allocated" /\ phase[x] = "within"}
<1>1. engine' = [engine EXCEPT !.stage = "activate", !.rows = {Copy(w) : w \in found}]
  BY DEF ActivateScan
<1>2. \A w \in found : Exists(w) /\ window[w].status \in Selected("activate")
  BY DEF Exists, Selected
<1>3. found \in SUBSET Windows
  OBVIOUS
<1> HIDE DEF found
<1> QED
  BY <1>1, <1>2, <1>3, Scanning DEF ActivateScan

LEMMA EscalateScanKeeps ==
  ASSUME RInv, EscalateScan, UNCHANGED <<phase, overdue, job, faults>>
  PROVE  RInv' /\ Moves
<1> DEFINE found == {x \in ListExpiredWindows : window[x].version < MaxVersion}
<1>1. engine' = [engine EXCEPT !.stage = "escalate", !.rows = {Copy(w) : w \in found}]
  BY DEF EscalateScan
<1>2. \A w \in found : Exists(w) /\ window[w].status \in Selected("escalate")
  BY DEF Exists, Selected, ListExpiredWindows
<1>3. found \in SUBSET Windows
  BY DEF ListExpiredWindows
<1> HIDE DEF found
<1> QED
  BY <1>1, <1>2, <1>3, Scanning DEF EscalateScan

\* Rows that are left of a list stay true of what has not changed.
LEMMA ListedKept ==
  ASSUME RInv, Onward, TypeOK', engine'.stage = engine.stage, engine'.rows \subseteq engine.rows
  PROVE  \A c \in engine'.rows : Listed(c)'
<1> SUFFICES ASSUME NEW c \in engine'.rows PROVE Listed(c)'
  OBVIOUS
<1>1. c \in CopyOf /\ Listed(c)
  BY DEF RInv, TypeOK, Engine, EngineInv
<1> QED
  BY <1>1, CopiesKept DEF Listed, RInv

LEMMA ActivateKeeps ==
  ASSUME RInv, NEW c \in engine.rows, Activate(c), UNCHANGED <<phase, overdue, job, faults>>
  PROVE  RInv' /\ Moves
<1>0. engine \in Engine /\ TypeOK /\ Unborn
  BY DEF RInv, TypeOK
<1>1. c \in CopyOf /\ c.window \in Windows /\ c.version \in Nat
  BY <1>0 DEF Engine, CopyOf
<1>2. Listed(c) /\ engine.stage = "activate"
  BY DEF RInv, EngineInv, Activate
<1>3. ReservationWhere(c.window, c.version) => CanTransition(window[c.window].status, "effective")
  BY <1>2 DEF Listed, Current, Selected, ReservationWhere, CanTransition, Transitions
<1>4. window' = UpdateReservationStatus(c.window, "effective", c.version)
  BY DEF Activate
<1>5. /\ window' \in [Windows -> Row]
      /\ Unborn' /\ Onward /\ Moves
      /\ \A v \in Windows : window'[v].level = window[v].level /\ (Exists(v)' => Exists(v))
  BY <1>0, <1>1, <1>3, <1>4, StatusUpdating DEF Status
<1>6. /\ engine' \in Engine /\ engine'.stage = engine.stage
      /\ engine'.rows = engine.rows \ {c} /\ engine'.unrecorded = engine.unrecorded
  BY <1>0 DEF Activate, Engine
<1>7. TypeOK'
  BY <1>0, <1>5, <1>6 DEF TypeOK, Activate
<1>8. (\A d \in Dispatchers : Asked(d)') /\ Reserved'
  BY <1>5, <1>7, RequestsKept
<1>9. EngineInv'
  <2>1. \A k \in engine'.rows : Listed(k)'
    BY <1>5, <1>6, <1>7, ListedKept
  <2>2. engine.unrecorded # NoCopy => engine.unrecorded.window \in Windows
    BY <1>0 DEF Engine, CopyOf
  <2> QED
    BY <1>2, <1>5, <1>6, <2>1, <2>2 DEF EngineInv, RInv, Activate
<1>a. Recorded'
  BY <1>5, <1>6 DEF Recorded, Missing, RInv, Activate
<1> QED
  BY <1>5, <1>7, <1>8, <1>9, <1>a DEF RInv

LEMMA NoCopyIsNone == NoCopy \notin CopyOf
BY DEF NoCopy, CopyOf

\* The row is as it was listed, or the UPDATE matches nothing: the engine does
\* not ask the state machine, and need not.
LEMMA EscalateKeeps ==
  ASSUME RInv, NEW c \in engine.rows, Escalate(c), UNCHANGED <<phase, overdue, job, faults>>
  PROVE  RInv' /\ Moves
<1>0. engine \in Engine /\ TypeOK /\ Unborn /\ Recorded
  BY DEF RInv, TypeOK
<1> DEFINE w == c.window
<1>1. c \in CopyOf /\ w \in Windows /\ c.version \in Nat /\ c.level \in Nat
  BY <1>0 DEF Engine, CopyOf
<1>2. Listed(c) /\ engine.stage = "escalate" /\ engine.unrecorded = NoCopy
  BY DEF RInv, EngineInv, Escalate
<1>3. window[w] \in Row /\ window \in [Windows -> Row]
  BY <1>0, <1>1 DEF TypeOK
<1>4. /\ engine'.stage = engine.stage /\ engine'.rows = engine.rows \ {c}
      /\ engine'.unrecorded = IF Affected THEN c ELSE NoCopy
      /\ UNCHANGED trail
  BY <1>0 DEF Escalate, Engine
<1>5. engine' \in Engine
  BY <1>0, <1>1 DEF Escalate, Engine
<1>6. CASE ReservationWhere(w, c.version)
  <2> DEFINE r == [status |-> "escalated", level |-> c.level + 1, version |-> c.version + 1]
  <2>1. window' = [window EXCEPT ![w] = r]
    BY <1>6 DEF Escalate, UpdateReservationAssignedTo
  <2>2. /\ window[w].version = c.version /\ window[w].level = c.level /\ Exists(w)
        /\ window[w].status \in {"effective", "occupied", "escalated"}
    BY <1>2, <1>6 DEF ReservationWhere, Listed, Current, Selected
  <2>3. /\ r \in Row /\ r.status \in Status /\ r.version = window[w].version + 1
        /\ r.level = window[w].level + 1
    BY <1>1, <2>2 DEF Row, Status
  <2>4. r.status = window[w].status \/ CanTransition(window[w].status, r.status)
    BY <2>2 DEF CanTransition, Transitions
  <2>5. ReservationWhere(w, window[w].version)
    BY <1>6, <2>2
  <2> HIDE DEF r
  <2>6. window' \in [Windows -> Row] /\ Unborn' /\ Onward /\ Moves
    BY <1>0, <1>1, <2>1, <2>3, <2>4, <2>5, Updating
  <2>7. TypeOK'
    BY <1>0, <1>5, <1>4, <2>6 DEF TypeOK
  <2>8. \A x \in Windows : Exists(x)' => Exists(x)
    BY <1>3, <2>1, <2>2 DEF Exists
  <2>9. (\A d \in Dispatchers : Asked(d)') /\ Reserved'
    BY <2>6, <2>7, <2>8, RequestsKept
  <2>a. Affected /\ c # NoCopy
    BY <1>1, <1>3, <2>1, <2>3, NoCopyIsNone DEF Affected, Row
  <2>b. \A k \in engine'.rows : Listed(k)'
    BY <1>4, <2>6, <2>7, ListedKept
  <2>c. /\ window'[w].level = c.level + 1 /\ window[w].level = c.level
        /\ \A x \in Windows \ {w} : window'[x].level = window[x].level
    BY <1>1, <1>3, <2>1, <2>2, <2>3
  <2>d. Len(trail[w]) \in Nat
    BY <1>0, <1>1 DEF TypeOK
  <2>e. \A i \in 1 .. Len(trail[w]) : trail[w][i] \in i .. c.level
    BY <1>0, <1>1, <2>c DEF Recorded
  <2>f. EngineInv'
    BY <1>1, <1>2, <1>4, <2>a, <2>b, <2>c, <2>d, <2>e DEF EngineInv
  <2>g. Recorded'
    <3> SUFFICES ASSUME NEW x \in Windows
                 PROVE  /\ Missing(x)' \in 0 .. faults
                        /\ \A i \in 1 .. Len(trail[x]) :
                             /\ trail[x][i] \in i .. window'[x].level
                             /\ i > 1 => trail[x][i - 1] < trail[x][i]
      BY <1>4 DEF Recorded
    <3>1. Missing(x)' = Missing(x)
      <4>1. CASE x = w
        BY <1>1, <1>2, <1>4, <2>a, <2>c, <2>d, <4>1 DEF Missing
      <4>2. CASE x # w
        BY <1>2, <1>4, <2>a, <2>c, <4>2 DEF Missing
      <4> QED
        BY <4>1, <4>2
    <3>2. window[x].level \in Nat /\ window'[x].level \in Nat /\ window[x].level <= window'[x].level
      <4>1. window[x] \in Row /\ window'[x] \in Row
        BY <1>3, <2>6
      <4>2. window[x].level \in Nat /\ window'[x].level \in Nat
        BY <4>1 DEF Row
      <4> QED
        BY <1>1, <2>c, <4>2
    <3>3. \A i \in 1 .. Len(trail[x]) : trail[x][i] \in Nat
      BY <1>0 DEF TypeOK
    <3> QED
      BY <1>0, <3>1, <3>2, <3>3 DEF Recorded
  <2> QED
    BY <2>6, <2>7, <2>9, <2>f, <2>g DEF RInv
<1>7. CASE ~ReservationWhere(w, c.version)
  <2>1. UNCHANGED window /\ ~Affected
    BY <1>7 DEF Escalate, UpdateReservationAssignedTo, Affected
  <2>2. engine'.unrecorded = engine.unrecorded
    BY <1>2, <1>4, <2>1
  <2>3. TypeOK'
    BY <1>0, <1>4, <1>5, <2>1 DEF TypeOK
  <2>4. Onward /\ Moves /\ Unborn' /\ \A x \in Windows : Exists(x)' => Exists(x)
    BY <1>0, <2>1 DEF Onward, Moves, status, Unborn, Exists, TypeOK, Row
  <2>5. (\A d \in Dispatchers : Asked(d)') /\ Reserved'
    BY <2>3, <2>4, RequestsKept
  <2>6. \A k \in engine'.rows : Listed(k)'
    BY <1>4, <2>3, <2>4, ListedKept
  <2>7. EngineInv' /\ Recorded'
    BY <1>0, <1>2, <1>4, <2>1, <2>2, <2>6 DEF EngineInv, Recorded, Missing
  <2> QED
    BY <2>3, <2>4, <2>5, <2>7 DEF RInv
<1> QED
  BY <1>6, <1>7

\* A record of the next level, after records of lower ones.
LEMMA NextRecord ==
  ASSUME NEW s \in Seq(Nat), NEW l \in Nat, Len(s) <= l,
         \A i \in 1 .. Len(s) : s[i] \in i .. l /\ (i > 1 => s[i - 1] < s[i]),
         NEW t, t = Append(s, l + 1)
  PROVE  /\ Len(t) = Len(s) + 1
         /\ \A i \in 1 .. Len(t) : t[i] \in i .. (l + 1) /\ (i > 1 => t[i - 1] < t[i])
<1> DEFINE n == Len(s)
<1>1. /\ n \in Nat /\ n <= l /\ Len(t) = n + 1 /\ t[n + 1] = l + 1
      /\ \A i \in 1 .. n : t[i] = s[i]
  OBVIOUS
<1>2. \A i \in 1 .. n : s[i] \in i .. l /\ (i > 1 => s[i - 1] < s[i])
  OBVIOUS
<1> HIDE DEF n
<1>3. ASSUME NEW i \in 1 .. n PROVE t[i] \in i .. (l + 1) /\ (i > 1 => t[i - 1] < t[i])
  <2>1. t[i] = s[i] /\ s[i] \in i .. l
    BY <1>1, <1>2
  <2>2. i > 1 => t[i - 1] = s[i - 1]
    BY <1>1
  <2>3. i > 1 => s[i - 1] < s[i]
    BY <1>2
  <2> QED
    BY <1>1, <2>1, <2>2, <2>3
<1>4. n + 1 > 1 => t[n] < t[n + 1]
  <2>1. n > 0 => t[n] = s[n] /\ s[n] \in n .. l
    BY <1>1, <1>2
  <2> QED
    BY <1>1, <2>1
<1>5. t[n + 1] \in (n + 1) .. (l + 1)
  BY <1>1
<1>6. \A i \in 1 .. n + 1 : i \in 1 .. n \/ i = n + 1
  BY <1>1
<1>7. n + 1 - 1 = n
  BY <1>1
<1>8. \A i \in 1 .. n + 1 : t[i] \in i .. (l + 1) /\ (i > 1 => t[i - 1] < t[i])
  <2> SUFFICES ASSUME NEW i \in 1 .. n + 1
               PROVE  t[i] \in i .. (l + 1) /\ (i > 1 => t[i - 1] < t[i])
    OBVIOUS
  <2>1. CASE i \in 1 .. n
    BY <1>3, <2>1
  <2>2. CASE i = n + 1
    BY <1>1, <1>4, <1>5, <1>7, <2>2
  <2> QED
    BY <1>6, <2>1, <2>2
<1> QED
  BY <1>1, <1>8 DEF n

LEMMA InsertEscalationKeeps ==
  ASSUME RInv, InsertEscalation, UNCHANGED <<phase, overdue, job, faults>>
  PROVE  RInv' /\ Moves
<1> DEFINE c == engine.unrecorded
           w == c.window
<1>0. engine \in Engine /\ TypeOK /\ Unborn /\ Recorded /\ EngineInv
  BY DEF RInv, TypeOK
<1>1. c # NoCopy /\ c \in CopyOf /\ w \in Windows /\ c.level \in Nat
  BY <1>0 DEF InsertEscalation, Engine, CopyOf
<1>2. /\ window[w].level = c.level + 1
      /\ \A i \in 1 .. Len(trail[w]) : trail[w][i] <= c.level
  BY <1>0, <1>1 DEF EngineInv
<1>3. /\ engine' \in Engine /\ engine'.stage = engine.stage /\ engine'.rows = engine.rows
      /\ engine'.unrecorded = NoCopy
  BY <1>0 DEF InsertEscalation, Engine
<1>4. trail' = [trail EXCEPT ![w] = Append(trail[w], c.level + 1)] /\ UNCHANGED window
  BY DEF InsertEscalation
<1>5. trail \in [Windows -> Seq(Nat)] /\ trail[w] \in Seq(Nat)
  BY <1>0, <1>1 DEF TypeOK
<1>6. trail'[w] = Append(trail[w], c.level + 1) /\ \A x \in Windows \ {w} : trail'[x] = trail[x]
  BY <1>1, <1>4, <1>5
<1>7. trail' \in [Windows -> Seq(Nat)]
  <2>1. Append(trail[w], c.level + 1) \in Seq(Nat)
    BY <1>1, <1>5
  <2> QED
    BY <1>4, <1>5, <2>1
<1>8. TypeOK'
  BY <1>0, <1>3, <1>4, <1>7 DEF TypeOK
<1>9. Onward /\ Moves /\ Unborn' /\ \A x \in Windows : Exists(x)' => Exists(x)
  BY <1>0, <1>4 DEF Onward, Moves, status, Unborn, Exists, TypeOK, Row
<1>a. (\A d \in Dispatchers : Asked(d)') /\ Reserved'
  BY <1>8, <1>9, RequestsKept
<1>b. EngineInv'
  <2>1. \A k \in engine'.rows : Listed(k)'
    BY <1>3, <1>8, <1>9, ListedKept
  <2> QED
    BY <1>0, <1>3, <2>1 DEF EngineInv
<1>c. Recorded'
  <2> SUFFICES ASSUME NEW x \in Windows
               PROVE  /\ Missing(x)' \in 0 .. faults
                      /\ \A i \in 1 .. Len(trail'[x]) :
                           /\ trail'[x][i] \in i .. window[x].level
                           /\ i > 1 => trail'[x][i - 1] < trail'[x][i]
    BY <1>4 DEF Recorded, InsertEscalation
  <2>1. /\ Missing(x) \in 0 .. faults
        /\ \A i \in 1 .. Len(trail[x]) :
             /\ trail[x][i] \in i .. window[x].level
             /\ i > 1 => trail[x][i - 1] < trail[x][i]
    BY <1>0 DEF Recorded
  <2>2. CASE x = w
    <3>1. /\ trail[x] \in Seq(Nat) /\ trail'[x] = Append(trail[x], c.level + 1)
          /\ window[x].level = c.level + 1
          /\ \A i \in 1 .. Len(trail[x]) : trail[x][i] <= c.level
      BY <1>2, <1>5, <1>6, <2>2
    <3>2. Missing(x) = (c.level + 1) - Len(trail[x]) - 1
      <4>1. engine.unrecorded # NoCopy /\ engine.unrecorded.window = x
        BY <1>1, <2>2
      <4>2. Missing(x) = window[x].level - Len(trail[x]) - 1
        BY <4>1 DEF Missing
      <4> QED
        BY <3>1, <4>2
    <3>3. Len(trail[x]) \in Nat /\ Len(trail[x]) <= c.level
      BY <1>0, <1>1, <2>1, <3>1, <3>2 DEF TypeOK
    <3>4. \A i \in 1 .. Len(trail[x]) :
            trail[x][i] \in i .. c.level /\ (i > 1 => trail[x][i - 1] < trail[x][i])
      BY <1>1, <2>1, <3>1
    <3>5. /\ Len(trail'[x]) = Len(trail[x]) + 1
          /\ \A i \in 1 .. Len(trail'[x]) :
               /\ trail'[x][i] \in i .. window[x].level
               /\ i > 1 => trail'[x][i - 1] < trail'[x][i]
      BY <1>1, <3>1, <3>3, <3>4, NextRecord
    <3>6. Missing(x)' = window[x].level - Len(trail'[x])
      BY <1>3, <1>4, <3>1, <3>3, <3>5, <1>1 DEF Missing
    <3>7. Missing(x)' = Missing(x)
      <4>1. window[x].level = c.level + 1 /\ Len(trail'[x]) = Len(trail[x]) + 1
        BY <3>1, <3>5
      <4>2. Missing(x)' = (c.level + 1) - (Len(trail[x]) + 1)
        BY <3>6, <4>1
      <4>3. c.level \in Nat /\ Len(trail[x]) \in Nat
        BY <1>1, <3>3
      <4> QED
        BY <3>2, <4>2, <4>3
    <3> QED
      BY <2>1, <3>5, <3>7
  <2>3. CASE x # w
    BY <1>1, <1>3, <1>4, <1>6, <2>1, <2>3 DEF Missing
  <2> QED
    BY <2>2, <2>3
<1> QED
  BY <1>8, <1>9, <1>a, <1>b, <1>c DEF RInv

\* The table stands still, and the engine's list is not added to.
LEMMA TableStands ==
  ASSUME RInv, UNCHANGED <<window, job>>, TypeOK'
  PROVE  Onward /\ Moves /\ Unborn' /\ (\A d \in Dispatchers : Asked(d)') /\ Reserved'
<1>1. Onward /\ Moves /\ Unborn' /\ \A x \in Windows : Exists(x)' => Exists(x)
  BY DEF Onward, Moves, status, Unborn, Exists, TypeOK, Row, RInv
<1> QED
  BY <1>1, RequestsKept

LEMMA TickEndsKeeps ==
  ASSUME RInv, TickEnds, UNCHANGED <<phase, overdue, job, faults>>
  PROVE  RInv' /\ Moves
<1>1. engine' = AtRest /\ AtRest \in Engine /\ UNCHANGED <<window, trail>>
  BY DEF TickEnds, AtRest, Engine
<1>2. TypeOK'
  BY <1>1 DEF TypeOK, RInv
<1>3. EngineInv' /\ Recorded'
  BY <1>1 DEF EngineInv, AtRest, Recorded, Missing, RInv, TickEnds
<1> QED
  BY <1>1, <1>2, <1>3, TableStands DEF RInv

LEMMA ClockKeeps ==
  ASSUME RInv, ClockStep
  PROVE  RInv' /\ Moves
<1>1. UNCHANGED <<window, trail, job, engine, faults>>
  BY DEF ClockStep
<1>2. TypeOK'
  BY <1>1 DEF RInv, TypeOK, ClockStep, Age, BecomeOverdue
<1>3. EngineInv' /\ Recorded'
  BY <1>1 DEF EngineInv, Listed, Behindhand, Current, Exists, Recorded, Missing, RInv
<1> QED
  BY <1>1, <1>2, <1>3, TableStands DEF RInv

\* An UPDATE that fails leaves its row to the next tick; a record that cannot
\* be inserted is lost for good, which the fault counts for; a SELECT that
\* fails leaves its stage without rows.
LEMMA EngineStatementFailsKeeps ==
  ASSUME RInv, EngineStatementFails
  PROVE  RInv' /\ Moves
<1>0. engine \in Engine /\ TypeOK /\ EngineInv /\ Recorded
  BY DEF RInv, TypeOK
<1>1. UNCHANGED <<window, trail, phase, overdue, job>>
  BY DEF EngineStatementFails
<1>2. faults \in Nat /\ faults' \in 0 .. MaxFaults /\ faults' = faults + 1
  BY <1>0, RoutingAssumption DEF EngineStatementFails, Fault, TypeOK
<1>3. /\ engine' \in Engine
      /\ engine'.rows \subseteq engine.rows
      /\ engine'.stage = engine.stage \/ engine'.rows = {}
      /\ engine'.stage = "rest" => engine'.rows = {}
      /\ engine'.unrecorded \in {engine.unrecorded, NoCopy}
  BY <1>0 DEF EngineStatementFails, EngineInv, Engine
<1>4. TypeOK'
  BY <1>0, <1>1, <1>2, <1>3 DEF TypeOK
<1>5. Onward /\ Moves /\ Unborn' /\ (\A d \in Dispatchers : Asked(d)') /\ Reserved'
  BY <1>1, <1>4, TableStands
<1>6. EngineInv'
  <2>1. \A k \in engine'.rows : Listed(k)'
    <3>1. CASE engine'.stage = engine.stage
      BY <1>3, <1>4, <1>5, <3>1, ListedKept
    <3>2. CASE engine'.rows = {}
      BY <3>2
    <3> QED
      BY <1>3, <3>1, <3>2
  <2> QED
    BY <1>0, <1>1, <1>3, <2>1 DEF EngineInv
<1>7. Recorded'
  <2>1. \A w \in Windows : window[w].level \in Nat /\ Len(trail[w]) \in Nat
    BY <1>0 DEF TypeOK, Row
  <2>2. \A w \in Windows : Missing(w)' \in Missing(w) .. Missing(w) + 1 /\ Missing(w) \in Int
    BY <1>1, <1>3, <2>1 DEF Missing
  <2>3. \A w \in Windows : Missing(w)' \in 0 .. faults'
    BY <1>0, <1>2, <2>2 DEF Recorded
  <2> QED
    BY <1>0, <1>1, <2>3 DEF Recorded
<1> QED
  BY <1>4, <1>5, <1>6, <1>7 DEF RInv

-----------------------------------------------------------------------------
(* The theorems.                                                            *)

LEMMA Begins == Init => RInv /\ Life!LifecycleInit
<1> SUFFICES ASSUME Init PROVE RInv /\ Life!LifecycleInit
  OBVIOUS
<1>1. TypeOK
  BY RoutingAssumption DEF Init, TypeOK, NoRow, Row, AtRest, Engine
<1>2. Unborn /\ Reserved /\ \A d \in Dispatchers : Asked(d)
  BY DEF Init, Unborn, Reserved, Asked, Idle
<1>3. EngineInv /\ Recorded
  BY <1>1 DEF Init, EngineInv, AtRest, Recorded, Missing, NoRow, TypeOK
<1>4. Life!LifecycleInit
  BY DEF Init, NoRow, Life!LifecycleInit
<1> QED
  BY <1>1, <1>2, <1>3, <1>4 DEF RInv

LEMMA NextKeeps ==
  ASSUME RInv, [Next]_vars
  PROVE  RInv' /\ Moves
<1>1. CASE \E d \in Dispatchers : RequestStep(d)
  BY <1>1, CreateKeeps, BatchArrivesKeeps, BatchInsertKeeps, ChangeReadKeeps,
     ChangeWriteKeeps DEF RequestStep
<1>2. CASE EngineStep
  <2> USE <1>2 DEF EngineStep
  <2>1. CASE ActivateScan
    BY <2>1, ActivateScanKeeps
  <2>2. CASE \E c \in engine.rows : Activate(c)
    BY <2>2, ActivateKeeps
  <2>3. CASE EscalateScan
    BY <2>3, EscalateScanKeeps
  <2>4. CASE \E c \in engine.rows : Escalate(c)
    BY <2>4, EscalateKeeps
  <2>5. CASE InsertEscalation
    BY <2>5, InsertEscalationKeeps
  <2>6. CASE TickEnds
    BY <2>6, TickEndsKeeps
  <2> QED
    BY <2>1, <2>2, <2>3, <2>4, <2>5, <2>6
<1>3. CASE ClockStep
  BY <1>3, ClockKeeps
<1>4. CASE \E d \in Dispatchers : RequestFails(d)
  BY <1>4, RequestFailsKeeps
<1>5. CASE EngineStatementFails
  BY <1>5, EngineStatementFailsKeeps
<1>6. CASE Crash
  BY <1>6, CrashKeeps
<1>7. CASE UNCHANGED vars
  <2>1. UNCHANGED <<window, trail, phase, overdue, job, engine, faults>>
    BY <1>7 DEF vars
  <2>2. TypeOK'
    BY <2>1 DEF RInv, TypeOK
  <2>3. EngineInv' /\ Recorded'
    BY <2>1 DEF EngineInv, Listed, Behindhand, Current, Exists, Recorded, Missing, RInv
  <2> QED
    BY <2>1, <2>2, <2>3, TableStands DEF RInv
<1> QED
  BY <1>1, <1>2, <1>3, <1>4, <1>5, <1>6, <1>7 DEF Next

LEMMA Always == Spec => []RInv
<1>1. Init => RInv
  BY Begins
<1>2. RInv /\ [Next]_vars => RInv'
  BY NextKeeps
<1> QED
  BY <1>1, <1>2, PTL DEF Spec

\* Rows, local copies, the engine's list and the escalation records stay
\* within their domains.
THEOREM RoutingTypeCorrect == Spec => []TypeOK
<1>1. RInv => TypeOK
  BY DEF RInv
<1> QED
  BY <1>1, Always, PTL

\* The engine escalates nothing early: what its list was selected by stays so,
\* for time does not run backwards.
Due ==
  /\ \A w \in Windows \ Behind : overdue[w] => phase[w] = "past"
  /\ engine.stage = "escalate" => \A c \in engine.rows : overdue[c.window]

\* Nothing but Escalate raises a level.
LEMMA LevelsStand ==
  ASSUME RInv,
         \/ \E d \in Dispatchers : RequestStep(d)
         \/ \E c \in engine.rows : Activate(c)
         \/ UNCHANGED window
  PROVE  \A w \in Windows : window'[w].level > 0 => window[w].level > 0
<1>0. TypeOK /\ \A w \in Windows : window[w] \in Row
  BY DEF RInv, TypeOK
<1>1. ASSUME NEW v \in Windows, window' = [window EXCEPT ![v] = NewRow]
      PROVE  \A w \in Windows : window'[w].level > 0 => window[w].level > 0
  BY <1>0, <1>1 DEF TypeOK, NewRow
<1>2. ASSUME NEW v, NEW s, NEW n, window' = UpdateReservationStatus(v, s, n)
      PROVE  \A w \in Windows : window'[w].level > 0 => window[w].level > 0
  BY <1>0, <1>2 DEF UpdateReservationStatus, TypeOK, Row
<1>3. CASE \E d \in Dispatchers : RequestStep(d)
  <2> PICK d \in Dispatchers : RequestStep(d)
    BY <1>3
  <2>1. CASE \E w \in Windows : Create(d, w)
    BY <2>1, <1>1 DEF Create
  <2>2. CASE \E items \in SUBSET Windows : BatchArrives(d, items)
    BY <2>2 DEF BatchArrives
  <2>3. CASE \E w \in Windows : BatchInsert(d, w)
    BY <2>3, <1>1 DEF BatchInsert
  <2>4. CASE \E w \in Windows, target \in Status : ChangeRead(d, w, target)
    BY <2>4 DEF ChangeRead
  <2>5. CASE ChangeWrite(d)
    BY <2>5, <1>2 DEF ChangeWrite
  <2> QED
    BY <2>1, <2>2, <2>3, <2>4, <2>5 DEF RequestStep
<1>4. CASE \E c \in engine.rows : Activate(c)
  BY <1>4, <1>2 DEF Activate
<1> QED
  BY <1>3, <1>4

\* Escalate raises the level of a row of the list.
LEMMA EscalatesDue ==
  ASSUME RInv, InTime, Due, NEW c \in engine.rows, Escalate(c),
         UNCHANGED <<phase, overdue, job, faults>>
  PROVE  InTime' /\ Due'
<1>0. engine \in Engine /\ TypeOK
  BY DEF RInv, TypeOK
<1>1. /\ window' = UpdateReservationAssignedTo(c.window, c.level + 1, c.version)
      /\ engine.stage = "escalate" /\ engine'.stage = "escalate"
      /\ engine'.rows \subseteq engine.rows
      /\ c.window \in Windows
  BY <1>0 DEF Escalate, Engine, CopyOf
<1>2. overdue[c.window]
  BY <1>1 DEF Due
<1>3. \A w \in Windows \ {c.window} : window'[w] = window[w]
  BY <1>0, <1>1 DEF UpdateReservationAssignedTo, TypeOK
<1> QED
  BY <1>1, <1>2, <1>3 DEF InTime, Due

\* Every other step keeps the levels and the list, or makes the list anew.
LEMMA StaysDue ==
  ASSUME RInv, InTime, Due, [Next]_vars
  PROVE  InTime' /\ Due'
<1>0. engine \in Engine /\ TypeOK
  BY DEF RInv, TypeOK
<1>1. CASE \E d \in Dispatchers : RequestStep(d)
  <2>1. UNCHANGED <<phase, overdue, engine>>
    BY <1>1 DEF RequestStep
  <2> QED
    BY <1>1, <2>1, LevelsStand DEF InTime, Due
<1>2. CASE EngineStep
  <2>1. CASE \E c \in engine.rows : Escalate(c)
    BY <1>2, <2>1, EscalatesDue DEF EngineStep
  <2>2. CASE EscalateScan
    <3>1. \A c \in engine'.rows : overdue[c.window]
      BY <1>0, <2>2 DEF EscalateScan, ListExpiredWindows, Copy, Engine
    <3> QED
      BY <1>2, <2>2, <3>1 DEF EngineStep, EscalateScan, InTime, Due
  <2>3. CASE \E c \in engine.rows : Activate(c)
    <3>1. engine'.stage = "activate"
      BY <1>0, <2>3 DEF Activate, Engine
    <3> QED
      BY <1>2, <2>3, <3>1, LevelsStand DEF EngineStep, InTime, Due
  <2>4. CASE ActivateScan \/ InsertEscalation \/ TickEnds
    <3>1. /\ UNCHANGED window
          /\ engine'.stage = "escalate" =>
               engine.stage = "escalate" /\ engine'.rows \subseteq engine.rows
      <4>1. CASE ActivateScan
        BY <1>0, <4>1 DEF ActivateScan, Engine
      <4>2. CASE InsertEscalation
        BY <1>0, <4>2 DEF InsertEscalation, Engine
      <4>3. CASE TickEnds
        BY <4>3 DEF TickEnds, AtRest
      <4> QED
        BY <2>4, <4>1, <4>2, <4>3
    <3> QED
      BY <1>2, <3>1 DEF EngineStep, InTime, Due
  <2> QED
    BY <1>2, <2>1, <2>2, <2>3, <2>4 DEF EngineStep
<1>3. CASE ClockStep
  <2>1. PICK w \in Windows : Age(w) \/ BecomeOverdue(w)
    BY <1>3 DEF ClockStep
  <2>2. \A v \in Windows : phase[v] = "past" => phase'[v] = "past"
    BY <1>0, <2>1 DEF Age, BecomeOverdue, TypeOK
  <2>3. \A v \in Windows : overdue[v] => overdue'[v]
    BY <1>0, <2>1 DEF Age, BecomeOverdue, TypeOK
  <2>4. \A v \in Windows \ Behind : overdue'[v] => phase'[v] = "past"
    BY <1>0, <2>1, <2>2 DEF Age, BecomeOverdue, TypeOK, Due
  <2>5. engine.stage = "escalate" => \A c \in engine.rows : c.window \in Windows
    BY <1>0 DEF Engine, CopyOf
  <2> QED
    BY <1>3, <2>2, <2>3, <2>4, <2>5 DEF ClockStep, InTime, Due
<1>4. CASE \/ \E d \in Dispatchers : RequestFails(d)
           \/ EngineStatementFails
           \/ Crash
  <2>1. UNCHANGED <<window, phase, overdue>>
    BY <1>4 DEF RequestFails, EngineStatementFails, Crash
  <2>2. engine'.stage = "escalate" =>
          \/ engine'.rows = {}
          \/ engine.stage = "escalate" /\ engine'.rows \subseteq engine.rows
    BY <1>0, <1>4 DEF RequestFails, EngineStatementFails, Crash, AtRest, Engine
  <2> QED
    BY <2>1, <2>2 DEF InTime, Due
<1>5. CASE UNCHANGED vars
  BY <1>5 DEF vars, InTime, Due
<1> QED
  BY <1>1, <1>2, <1>3, <1>4, <1>5 DEF Next

LEMMA AlwaysDue == Spec => [](InTime /\ Due)
<1>1. Init => InTime /\ Due
  BY DEF Init, InTime, Due, AtRest, NoRow
<1>2. RInv /\ InTime /\ Due /\ [Next]_vars => InTime' /\ Due'
  BY StaysDue
<1> QED
  BY <1>1, <1>2, Always, PTL DEF Spec

\* The escalation records of a reservation are one for every level reached, in
\* order, but for those a fault kept from being inserted; and no level is
\* reached before the deadline, but for deadlines of a zone behind.
THEOREM TrailTruthful == Spec => []EscalationTrail
<1>1. RInv /\ InTime => EscalationTrail
  BY DEF RInv, EscalationTrail
<1> QED
  BY <1>1, Always, AlwaysDue, PTL

\* Whatever dispatchers and the engine do to the rows under each other's
\* hands, a reservation moves along the state machine's edges only.
THEOREM ReservationRefinement == Spec => ReservationLifecycle
<1>1. RInv /\ [Next]_vars => [Life!LifecycleNext]_status
  BY NextKeeps DEF Moves
<1>2. Init => Life!LifecycleInit
  BY Begins
<1> QED
  BY <1>1, <1>2, Always, PTL DEF Spec, ReservationLifecycle, Life!LifecycleSpec, status
=============================================================================
