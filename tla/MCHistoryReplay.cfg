SPECIFICATION MCSpec
CONSTANTS
  Candidate <- MCIds
  Command <- MCIds
  UserMessage = {hello}
  None = None
  MaxEpoch = 1
  MaxIndex = 1
  MaxSwipe = 1
  MaxLog = 4
  MaxReplays = 2
  Concept <- MCConcept
  SnapshotOf <- MCSnapshotOf
  ConceptsOf <- MCConceptsOf
  LinksOf <- MCLinksOf
  Applier = {applier}
  MaxFaults = 1
INVARIANTS
  OperationsDeriveRows
  ReplaysSucceed
PROPERTIES
  AppliedIsTheBaseline
CHECK_DEADLOCK FALSE
