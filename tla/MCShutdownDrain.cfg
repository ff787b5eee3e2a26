\* The instance of MCShutdown.cfg.
CONSTANTS
  r1 = r1
  r2 = r2
  Requests <- MCRequests
  MaxSignals = 2
SPECIFICATION ShutdownSpec
SYMMETRY Symmetry
CHECK_DEADLOCK FALSE
INVARIANT RequestsDrained
