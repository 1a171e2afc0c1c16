SPECIFICATION MCSpec
CONSTANTS
  Candidate = {c1, c2, c3}
  Command = {k1, k2, k3}
  UserMessage = {1, 2}
  None = None
  MaxEpoch = 2
  MaxIndex = 1
  MaxSwipe = 2
SYMMETRY Symmetry
CHECK_DEADLOCK FALSE
INVARIANTS
  RepliesAgree
PROPERTIES
  SwipeDeletionIsSplice
  NewEpochInheritsPrefix
