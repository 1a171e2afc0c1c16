SPECIFICATION FairSpec
CONSTANTS
  None = None
  Text = {a, b}
  Greeting = a
  Said = {a}
  MaxLen = 5
  MaxEpoch = 3
  MaxEdits = 2
  MaxSends = 2
  MaxFaults = 1
  MaxTotal = 4
INVARIANTS CheckpointVouches CommandStillApplies
PROPERTIES SettledMeansTrimmed NoGenerationUnderGuard SendsAreAnswered
CHECK_DEADLOCK FALSE
