SPECIFICATION MCSpec
CONSTANTS
  s1 = s1
  s2 = s2
  runtime = runtime
  bram = bram
  ada = ada
  x1 = x1
  x2 = x2
  w1 = w1
  w2 = w2
  Path = {runtime, bram, ada}
  RuntimeWorld = runtime
  Snapshot = {s1, s2}
  None = None
  NoOwner = NoOwner
  Absent = Absent
  Content = {x1, x2}
  Projection <- MCProjection
  Writer = {w1, w2}
  MaxFaults = 2
  Process = {1, 2}
  MaxAttempts = 3
  MaxCrashes = 2
  Build = {build1, build2}
  Profile = {p, q}
  Install = {t1, t2}
  Nil = Nil
  MaxChanges = 4
  MaxInstallFaults = 1
INVARIANTS TornIsRecoverable ExclusiveUntilTakeover
  MemoryIsWhole NothingIsCrowdedOut ReadingGoesOn PromiseKept
PROPERTIES TornIsRepaired
CHECK_DEADLOCK FALSE
