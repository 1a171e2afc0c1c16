SPECIFICATION Spec
CONSTANTS
  None = None
  Sends = {s1, s2}
  Dries = {d1}
  MaxFaults = 1
PROPERTY
  RefusalHolds
CHECK_DEADLOCK FALSE
