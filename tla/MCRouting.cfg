\* Two reservations, one with its deadline in a zone behind the server's, and an
\* item of a batch that names no mission; a dispatcher, the engine and one fault.
CONSTANTS
  v1 = v1
  v2 = v2
  v3 = v3
  d1 = d1
  Windows = {v1, v2, v3}
  Orphans = {v3}
  Behind = {v2}
  Dispatchers = {d1}
  MaxChanges = 3
  MaxVersion = 4
  MaxFaults = 1
SPECIFICATION FairSpec
INVARIANTS TypeOK EscalationTrail
PROPERTIES ReservationLifecycle OverdueIsEscalated
CHECK_DEADLOCK FALSE
