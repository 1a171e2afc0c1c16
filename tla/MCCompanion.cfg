SPECIFICATION MCSpec
CONSTANTS
  r1 = r1
  r2 = r2
  Run = {r1}
  Host = Host
  None = None
  Null = Null
  Body = {b1, b2}
  Delta = {"plain", "canonical", "invalid"}
  IndexOf <- OneRun
  SwipeOf <- OneRun
  Overlapping = TRUE
  MaxToolSteps = 4
  MaxCorrections = 1
  MaxFaults = 3
  MaxEpoch = 1
  MaxIndex = 1
  MaxSwipe = 1
  p = p
  q = q
  m = m
  n = n
  Profile = {p, q}
  Request = {r}
  Connection = {p, q}
  Model = {m, n}
  OwnModel <- ModelsApart
  Nil = Nil
  MaxInstances = 5
  MaxSwitchFaults = 2
  MaxRuntimes = 3
  MaxSteps = 6
INVARIANTS
  WriteAhead
  CompletedIsCommitted
  WorldMatchesLedger
  RuntimesAreKnown
  KeyFitsUpstream
PROPERTIES
  SealedProseKept
  RecoveryCompletes
  OnlyEarlierRequestsAreCut
  SwitchEnds
CHECK_DEADLOCK FALSE
