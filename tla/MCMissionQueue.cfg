\* The queue under fair scheduling: a submission at a time, a quota endpoint, an
\* operator and the engine; two priorities.  No keys and no faults.
CONSTANTS
  q1 = q1
  m1 = m1
  m2 = m2
  s1 = s1
  s2 = s2
  o1 = o1
  c1 = c1
  k1 = k1
  Quotas = {q1}
  Limit <- SameLimit
  Callers = {c1}
  Amounts = {1}
  MaxRetries = 1
  MaxUpdates = 2
  MaxVersion = 3
  Missions = {m1, m2}
  Keys = {}
  NoKey = NoKey
  NoMission = NoMission
  Submitters = {s1}
  Operators = {o1}
  Energies = {1}
  Priorities = {1, 2}
  MaxFaults = 0
  MaxChanges = 2
SPECIFICATION FairSpec
PROPERTIES MissionFollowsMachine SubmitEnds CallEnds QueuedLeaves
CHECK_DEADLOCK FALSE
