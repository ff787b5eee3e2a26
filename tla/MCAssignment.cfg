\* Two tasks: the engine works through a list of expired rows and the worker
\* through its polls, while a request, under the worker's executor id or
\* another, and a fault interfere; two claims.
CONSTANTS
  t1 = t1
  t2 = t2
  e1 = e1
  e2 = e2
  h1 = h1
  w1 = w1
  Tasks = {t1, t2}
  Executors = {e1, e2}
  Handlers = {h1}
  Workers = {w1}
  Leases = {l1, l2}
  WorkerId <- OneWorkerId
  Rank <- StrictRank
  LeaseTimeout = 1
  BatchSize = 1
  MaxFaults = 1
  NoTask = NoTask
  NoExecutor = NoExecutor
  NoLease = NoLease
SPECIFICATION Spec
SYMMETRY Symmetry
INVARIANTS TypeOK IInv OneOutcome LeaseOutcome
PROPERTIES LiveClaimKept StatusFollowsMachine PoolSpec
CHECK_DEADLOCK FALSE
