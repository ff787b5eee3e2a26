\* One task, one request goroutine and one worker, under fair scheduling.
CONSTANTS
  t1 = t1
  t2 = t2
  e1 = e1
  e2 = e2
  h1 = h1
  w1 = w1
  Tasks = {t1}
  Executors = {e1, e2}
  Handlers = {h1}
  Workers = {w1}
  Leases = {l1, l2}
  WorkerId <- OneWorkerId
  Rank <- StrictRank
  LeaseTimeout = 1
  BatchSize = 1
  MaxFaults = 1
  NoTask = NoTask
  NoExecutor = NoExecutor
  NoLease = NoLease
SPECIFICATION FairSpec
PROPERTIES ExpiredClaimEnds PreemptedIsReassigned AssignedIsCompleted
CHECK_DEADLOCK FALSE
