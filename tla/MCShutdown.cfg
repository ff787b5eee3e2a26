\* Either command, two requests, a second signal after the first.
CONSTANTS
  r1 = r1
  r2 = r2
  Requests <- MCRequests
  MaxSignals = 2
SPECIFICATION FairShutdownSpec
\* Processes end.
CHECK_DEADLOCK FALSE
INVARIANTS
  ShutdownTypeOK
  WorkNotCut
PROPERTY SignalEndsProcess
