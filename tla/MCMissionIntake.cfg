\* Two submissions, the engine and a quota endpoint on one row of two units;
\* one key, two missions, one fault; the endpoint moves two units or takes one back.  No
\* operators: see MCMissionQueue.cfg.
CONSTANTS
  q1 = q1
  m1 = m1
  m2 = m2
  s1 = s1
  s2 = s2
  o1 = o1
  c1 = c1
  k1 = k1
  Quotas = {q1}
  Limit <- SameLimit
  Callers = {c1}
  Amounts <- EitherSign
  MaxRetries = 1
  MaxUpdates = 2
  MaxVersion = 4
  Missions = {m1, m2}
  Keys = {k1}
  NoKey = NoKey
  NoMission = NoMission
  Submitters = {s1, s2}
  Operators = {}
  Energies = {1}
  Priorities = {1}
  MaxFaults = 1
  MaxChanges = 1
SPECIFICATION Spec
SYMMETRY Symmetry
INVARIANTS TypeOK WithinLimit EnergyAccounted AnswersTruthful
PROPERTIES AllowanceSpec
CHECK_DEADLOCK FALSE
