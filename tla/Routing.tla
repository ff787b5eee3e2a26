------------------------------ MODULE Routing ------------------------------
(***************************************************************************)
(* Route reservations: the routing service, its table (route_reservations) *)
(* and the escalation records, as used by the dispatchers' requests and by *)
(* the first two stages of the engine's tick, which activate reservations  *)
(* and escalate overdue ones.                                              *)
(*                                                                         *)
(* A dispatcher's request reads a row and writes it if its version is the  *)
(* one read.  The engine reads all rows of interest in one SELECT and then *)
(* writes them one by one, each if it is unchanged.                        *)
(*                                                                         *)
(* Time is where a reservation stands towards its two deadlines.  The      *)
(* service compares instants when it activates, but when it looks for      *)
(* overdue rows it compares the text of deadline_at, in the zone the       *)
(* client sent, with the text of the present time in the server's zone.    *)
(***************************************************************************)
EXTENDS Integers, Sequences, FiniteSets

CONSTANTS
  Windows,      \* ids of route reservations
  Orphans,      \* those whose mission_id names no mission
  Behind,       \* those whose deadline is written in a zone behind the server's
  Dispatchers,  \* request goroutines
  MaxChanges,   \* bound: requests change rows of fewer versions only
  MaxVersion,   \* bound: the engine escalates rows of fewer versions only
  MaxFaults     \* bound on crashes and failed statements

ASSUME RoutingAssumption ==
  /\ Orphans \subseteq Windows
  /\ Behind \subseteq Windows
  /\ MaxChanges \in Nat
  /\ MaxVersion \in Nat
  /\ MaxFaults \in Nat

VARIABLES
  window,   \* route_reservations, by id
  trail,    \* trail[w]: levels of the escalation records of w, in order
  phase,    \* phase[w]: the present, towards effective_at and deadline_at of w
  overdue,  \* overdue[w]: the text of w's deadline is before that of the present
  job,      \* job[d]: the service call dispatcher d's request is in
  engine,   \* the stage of the tick, with the rows it has read
  faults    \* crashes and failed statements so far

vars == <<window, trail, phase, overdue, job, engine, faults>>

-----------------------------------------------------------------------------
(* The state machine of a reservation.                                     *)

Status == {"allocated", "effective", "occupied", "released", "expired",
           "escalated", "cancelled"}

Transitions ==
  {<<"allocated", "effective">>, <<"allocated", "cancelled">>,
   <<"allocated", "escalated">>,
   <<"effective", "occupied">>, <<"effective", "expired">>,
   <<"effective", "escalated">>, <<"effective", "released">>,
   <<"occupied", "released">>, <<"occupied", "escalated">>,
   <<"escalated", "effective">>, <<"escalated", "released">>,
   <<"escalated", "cancelled">>}

CanTransition(src, dst) == <<src, dst>> \in Transitions

-----------------------------------------------------------------------------
(* Rows and local copies.                                                  *)

\* assigned_to is the text of the level: it is the level.
Row == [status : Status \union {"absent"}, level : Nat, version : Nat]

NoRow == [status |-> "absent", level |-> 0, version |-> 0]
NewRow == [status |-> "allocated", level |-> 0, version |-> 1]

Exists(w) == window[w].status # "absent"

Copy(w) == [window |-> w, level |-> window[w].level, version |-> window[w].version]
CopyOf == [window : Windows, level : Nat, version : Nat]

Idle == [op |-> "idle"]

\* A batch holds the items it was asked for and those it has still to insert.
Job == [op : {"change"}, copy : CopyOf, target : Status]
       \union [op : {"batch"}, items : SUBSET Windows, left : SUBSET Windows]

NoCopy == [op |-> "none"]

Engine == [stage : {"rest", "activate", "escalate"}, rows : SUBSET CopyOf,
           unrecorded : CopyOf \union {NoCopy}]

AtRest == [stage |-> "rest", rows |-> {}, unrecorded |-> NoCopy]

Init ==
  /\ window = [w \in Windows |-> NoRow]
  /\ trail = [w \in Windows |-> << >>]
  /\ phase = [w \in Windows |-> "before"]
  /\ overdue = [w \in Windows |-> FALSE]
  /\ job = [d \in Dispatchers |-> Idle]
  /\ engine = AtRest
  /\ faults = 0

-----------------------------------------------------------------------------
(* The SQL statements.                                                     *)

\* Mutated WHERE clause: WHERE id = ?.
AnyVersion(w, v) == Exists(w)

ReservationWhere(w, v) == Exists(w) /\ window[w].version = v

UpdateReservationStatus(w, status, v) ==
  IF ReservationWhere(w, v)
  THEN [window EXCEPT ![w].status = status, ![w].version = @ + 1]
  ELSE window

\* Mutated statement: the status is misspelt.
EscalatedMisspelt(w, level, v) ==
  IF ReservationWhere(w, v)
  THEN [window EXCEPT ![w] = [status |-> "escalate", level |-> level, version |-> v + 1]]
  ELSE window

UpdateReservationAssignedTo(w, level, v) ==
  IF ReservationWhere(w, v)
  THEN [window EXCEPT ![w] = [status |-> "escalated", level |-> level, version |-> v + 1]]
  ELSE window

\* Mutated listing: occupied reservations are forgotten.
OccupiedForgotten ==
  {w \in Windows : overdue[w] /\ window[w].status \in {"effective", "escalated"}}

ListExpiredWindows ==
  {w \in Windows : overdue[w] /\ window[w].status \in {"effective", "occupied", "escalated"}}

-----------------------------------------------------------------------------
(* Requests.                                                               *)

\* An id nobody has: the service draws a fresh one for every reservation.
Fresh(w) ==
  /\ ~Exists(w)
  /\ \A d \in Dispatchers : job[d].op = "batch" => w \notin job[d].items

\* INSERT of one reservation; the foreign key refuses an orphan.
Create(d, w) ==
  /\ job[d] = Idle
  /\ Fresh(w) /\ w \notin Orphans
  /\ window' = [window EXCEPT ![w] = NewRow]
  /\ UNCHANGED job

BatchArrives(d, items) ==
  /\ job[d] = Idle
  /\ items # {} /\ \A w \in items : Fresh(w)
  /\ job' = [job EXCEPT ![d] = [op |-> "batch", items |-> items, left |-> items]]
  /\ UNCHANGED window

\* One INSERT of a batch; an item that is refused ends the request.
BatchInsert(d, w) ==
  /\ job[d].op = "batch"
  /\ w \in job[d].left
  /\ IF w \in Orphans
     THEN /\ job' = [job EXCEPT ![d] = Idle]
          /\ UNCHANGED window
     ELSE /\ window' = [window EXCEPT ![w] = NewRow]
          /\ job' = [job EXCEPT ![d] = IF job[d].left = {w} THEN Idle
                                       ELSE [job[d] EXCEPT !.left = @ \ {w}]]

\* Release and ForceIntervene read the row and ask the state machine.
ChangeRead(d, w, target) ==
  /\ job[d] = Idle
  /\ Exists(w) /\ window[w].version < MaxChanges
  /\ CanTransition(window[w].status, target)
  /\ job' = [job EXCEPT ![d] = [op |-> "change", copy |-> Copy(w), target |-> target]]
  /\ UNCHANGED window

ChangeWrite(d) ==
  /\ job[d].op = "change"
  /\ window' = UpdateReservationStatus(job[d].copy.window, job[d].target, job[d].copy.version)
  /\ job' = [job EXCEPT ![d] = Idle]

-----------------------------------------------------------------------------
(* The engine.  The clock is read just before the rows are: nobody but the *)
(* engine looks at the time, so the two are one step.                      *)

ActivateScan ==
  /\ engine.stage = "rest"
  /\ engine' = [engine EXCEPT
       !.stage = "activate",
       !.rows = {Copy(w) : w \in {x \in Windows : /\ window[x].status = "allocated"
                                                  /\ phase[x] = "within"}}]
  /\ UNCHANGED <<window, trail>>

Activate(c) ==
  /\ engine.stage = "activate"
  /\ c \in engine.rows
  /\ window' = UpdateReservationStatus(c.window, "effective", c.version)
  /\ engine' = [engine EXCEPT !.rows = @ \ {c}]
  /\ UNCHANGED trail

\* Bound: a row that has been escalated often enough is left alone.
EscalateScan ==
  /\ engine.stage = "activate" /\ engine.rows = {}
  /\ engine' = [engine EXCEPT
       !.stage = "escalate",
       !.rows = {Copy(w) : w \in {x \in ListExpiredWindows : window[x].version < MaxVersion}}]
  /\ UNCHANGED <<window, trail>>

\* Mutated check: the number of affected rows is ignored.
AlwaysAffected == TRUE

Affected == window' # window

Escalate(c) ==
  /\ engine.stage = "escalate" /\ engine.unrecorded = NoCopy
  /\ c \in engine.rows
  /\ window' = UpdateReservationAssignedTo(c.window, c.level + 1, c.version)
  /\ engine' = [engine EXCEPT !.rows = @ \ {c},
                              !.unrecorded = IF Affected THEN c ELSE NoCopy]
  /\ UNCHANGED trail

\* The escalation record is a statement of its own.
InsertEscalation ==
  /\ engine.unrecorded # NoCopy
  /\ LET c == engine.unrecorded IN trail' = [trail EXCEPT ![c.window] = Append(@, c.level + 1)]
  /\ engine' = [engine EXCEPT !.unrecorded = NoCopy]
  /\ UNCHANGED window

TickEnds ==
  /\ engine.stage = "escalate" /\ engine.rows = {} /\ engine.unrecorded = NoCopy
  /\ engine' = AtRest
  /\ UNCHANGED <<window, trail>>

-----------------------------------------------------------------------------
(* Time, failed statements and crashes.  An orphan's times never matter.   *)

Age(w) ==
  /\ phase[w] # "past" /\ w \notin Orphans
  /\ phase' = [phase EXCEPT ![w] = IF @ = "before" THEN "within" ELSE "past"]
  /\ UNCHANGED overdue

\* Mutated listing: effective_at < now, the other column of the two.
OverdueOnceEffective(w) ==
  /\ ~overdue[w] /\ w \notin Orphans
  /\ phase[w] # "before" \/ w \in Behind
  /\ overdue' = [overdue EXCEPT ![w] = TRUE]
  /\ UNCHANGED phase

\* deadline_at < now, as text: after the deadline when the zones agree, at any
\* time when the deadline's is behind.
BecomeOverdue(w) ==
  /\ ~overdue[w] /\ w \notin Orphans
  /\ phase[w] = "past" \/ w \in Behind
  /\ overdue' = [overdue EXCEPT ![w] = TRUE]
  /\ UNCHANGED phase

Fault == faults < MaxFaults /\ faults' = faults + 1

\* A statement of a request fails: the request ends.
RequestFails(d) ==
  /\ Fault
  /\ job[d] # Idle
  /\ job' = [job EXCEPT ![d] = Idle]
  /\ UNCHANGED <<window, trail, phase, overdue, engine>>

\* A statement of the engine fails: an UPDATE or an INSERT leaves it with the
\* next row, a SELECT with a stage without rows.
EngineStatementFails ==
  /\ Fault
  /\ \/ /\ engine.unrecorded = NoCopy
        /\ \E c \in engine.rows : engine' = [engine EXCEPT !.rows = @ \ {c}]
     \/ /\ engine.unrecorded # NoCopy
        /\ engine' = [engine EXCEPT !.unrecorded = NoCopy]
     \/ /\ engine.stage = "rest"
        /\ engine' = [engine EXCEPT !.stage = "activate"]
     \/ /\ engine.stage = "activate" /\ engine.rows = {}
        /\ engine' = [engine EXCEPT !.stage = "escalate"]
  /\ UNCHANGED <<window, trail, phase, overdue, job>>

Crash ==
  /\ Fault
  /\ job' = [d \in Dispatchers |-> Idle]
  /\ engine' = AtRest
  /\ UNCHANGED <<window, trail, phase, overdue>>

-----------------------------------------------------------------------------

RequestStep(d) ==
  /\ \/ \E w \in Windows : Create(d, w)
     \/ \E items \in SUBSET Windows : BatchArrives(d, items)
     \/ \E w \in Windows : BatchInsert(d, w)
     \/ \E w \in Windows, target \in Status : ChangeRead(d, w, target)
     \/ ChangeWrite(d)
  /\ UNCHANGED <<trail, phase, overdue, engine, faults>>

EngineStep ==
  /\ \/ ActivateScan
     \/ \E c \in engine.rows : Activate(c)
     \/ EscalateScan
     \/ \E c \in engine.rows : Escalate(c)
     \/ InsertEscalation
     \/ TickEnds
  /\ UNCHANGED <<phase, overdue, job, faults>>

ClockStep ==
  /\ \E w \in Windows : Age(w) \/ BecomeOverdue(w)
  /\ UNCHANGED <<window, trail, job, engine, faults>>

Next ==
  \/ \E d \in Dispatchers : RequestStep(d)
  \/ EngineStep
  \/ ClockStep
  \/ \E d \in Dispatchers : RequestFails(d)
  \/ EngineStatementFails
  \/ Crash

Spec == Init /\ [][Next]_vars

\* The engine's ticker keeps firing, and a tick that has begun goes on.
FairSpec == Spec /\ WF_vars(EngineStep)

-----------------------------------------------------------------------------
(* Properties.                                                             *)

\* Rows, local copies and histories stay within their domains.
TypeOK ==
  /\ window \in [Windows -> Row]
  /\ trail \in [Windows -> Seq(Nat)]
  /\ phase \in [Windows -> {"before", "within", "past"}]
  /\ overdue \in [Windows -> BOOLEAN]
  /\ job \in [Dispatchers -> Job \union {Idle}]
  /\ engine \in Engine
  /\ faults \in 0 .. MaxFaults

\* Dispatchers and the engine act on copies, and the engine's escalation does
\* not ask the state machine; still the service implements the lifecycle of a
\* reservation, so a released or cancelled one is never activated or escalated.
Life == INSTANCE Lifecycle WITH
          Items <- Windows, Born <- "allocated", Edges <- Transitions,
          status <- [w \in Windows |-> window[w].status]

ReservationLifecycle == Life!LifecycleSpec

\* Records of a reservation that are missing: the engine is about to insert
\* one, or a fault kept it from doing so.
Missing(w) ==
  window[w].level - Len(trail[w])
    - (IF engine.unrecorded # NoCopy /\ engine.unrecorded.window = w THEN 1 ELSE 0)

Recorded ==
  \A w \in Windows :
    /\ Missing(w) \in 0 .. faults
    /\ \A i \in 1 .. Len(trail[w]) :
         /\ trail[w][i] \in i .. window[w].level
         /\ i > 1 => trail[w][i - 1] < trail[w][i]

InTime == \A w \in Windows \ Behind : window[w].level > 0 => phase[w] = "past"

\* The escalation records tell the truth: one for every level reached, in
\* order, none twice and none that was not reached; only a failed statement or
\* a crash between the row's update and the record's insert leaves a gap.  And
\* no level is reached before the deadline, whatever list the engine works
\* from, unless the deadline was written in a zone behind the server's.
EscalationTrail == Recorded /\ InTime

\* An effective or occupied reservation that is overdue is escalated in the
\* end, unless a dispatcher ends it first, although dispatchers change rows
\* under the engine's hands and a tick may fail or be lost in a crash.
OverdueIsEscalated ==
  \A w \in Windows :
    (overdue[w] /\ window[w].status \in {"effective", "occupied"})
      ~> window[w].status \in {"escalated", "released", "expired", "cancelled"}

\* service.go: "BatchAllocate creates multiple route reservations in a single
\* transaction. If any window fails validation, the entire batch is rolled
\* back."  When a batch ends, all of its reservations exist or none does.
BatchAllOrNothing ==
  [][\A d \in Dispatchers :
       job[d].op = "batch" /\ job'[d] = Idle =>
         \/ \A w \in job[d].items : Exists(w)'
         \/ \A w \in job[d].items : ~Exists(w)']_vars
=============================================================================
