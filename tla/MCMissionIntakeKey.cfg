\* Two requests with one key; no fault, no other traffic.
CONSTANTS
  q1 = q1
  m1 = m1
  m2 = m2
  s1 = s1
  s2 = s2
  o1 = o1
  c1 = c1
  k1 = k1
  Quotas = {q1}
  Limit <- SameLimit
  Callers = {}
  Amounts = {1}
  MaxRetries = 1
  MaxUpdates = 2
  MaxVersion = 4
  Missions = {m1, m2}
  Keys = {k1}
  NoKey = NoKey
  NoMission = NoMission
  Submitters = {s1, s2}
  Operators = {}
  Energies = {2}
  Priorities = {1}
  MaxFaults = 0
  MaxChanges = 2
SPECIFICATION Spec
INVARIANTS RejectedHasNoMission
CHECK_DEADLOCK FALSE
