\* A batch of two, the second of which names no mission; no fault.
CONSTANTS
  v1 = v1
  v2 = v2
  v3 = v3
  d1 = d1
  Windows = {v1, v2}
  Orphans = {v2}
  Behind = {}
  Dispatchers = {d1}
  MaxChanges = 3
  MaxVersion = 4
  MaxFaults = 0
SPECIFICATION Spec
PROPERTIES BatchAllOrNothing
CHECK_DEADLOCK FALSE
