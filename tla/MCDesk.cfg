\* Two requests of a dispatcher and an engineer on one run and one document.
CONSTANTS
  k1 = k1
  k2 = k2
  r1 = r1
  r2 = r2
  x1 = x1
  d1 = d1
  Tokens = {k1, k2}
  Role <- RoleOfToken
  Requests = {r1, r2}
  RunCallers = {r1, r2}
  HandoverCallers = {r1, r2}
  Runs = {x1}
  Units = {0, 1, 2}
  MaxRunVersion = 5
  Documents = {d1}
SPECIFICATION DeskSpec
SYMMETRY Symmetry
INVARIANTS DeskTypeOK CompletersUnits OneFarewell LateIsRefused
PROPERTIES RunLifecycle HandoverLifecycle
CHECK_DEADLOCK FALSE
