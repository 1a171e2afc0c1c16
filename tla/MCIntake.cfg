SPECIFICATION MCSpec
CONSTANTS
  Tab = {t, u}
  NBatches = 1
  MaxRounds = 2
  None = None
  MaxAttempts = 2
  MaxFaults = 1
  la = la
  lb = lb
  Lores = {la, lb}
  NoLore = NoLore
  Keys = {1, 2}
  Concepts <- OneThenTwo
  Tabs = {t, u}
  MaxEntities = 4
  MaxEvents = 5
  Source = {a, b}
  Ask = {q, r}
  Unset = Unset
  MaxSaves = 2
  MaxDrifts = 2
SYMMETRY Symmetry
CONSTRAINT NothingLost
INVARIANTS PaidIsAccounted OneFreshIntake
PROPERTIES PublishesWhole AppliedWasShown
CHECK_DEADLOCK FALSE
