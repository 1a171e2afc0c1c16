SPECIFICATION Spec
CONSTANTS
  None = None
  Sends = {s1, s2}
  Dries = {d1}
  MaxFaults = 1
INVARIANTS
  OverlayHasOwner
  TraceFitsPayload
  SourcesComeBack
CHECK_DEADLOCK FALSE
SYMMETRY SendSymmetry
