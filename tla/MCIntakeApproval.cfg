SPECIFICATION MCSpec
CONSTANTS
  Tab = {t}
  NBatches = 1
  MaxRounds = 1
  None = None
  MaxAttempts = 1
  MaxFaults = 0
  la = la
  lb = lb
  Lores = {la, lb}
  NoLore = NoLore
  Keys = {1, 2}
  Concepts <- OneThenTwo
  Tabs = {t}
  MaxEntities = 3
  MaxEvents = 2
  Source = {a}
  Ask = {q}
  Unset = Unset
  MaxSaves = 0
  MaxDrifts = 0
PROPERTIES OnlyTheUserApplies
CHECK_DEADLOCK FALSE
