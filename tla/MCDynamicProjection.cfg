SPECIFICATION FairSpec
CONSTANTS
  Canonical = {1}
  Composer = {c}
  Hidden = Hidden
  None = None
  c = c
  MaxCommits = 2
  MaxEpoch = 1
  MaxLore = 1
  MaxFaults = 1
INVARIANTS AcceptedIsHistory
PROPERTIES ReadersSeeWholeProjections PublishedIsHead PendingIsPublished
CHECK_DEADLOCK FALSE
