CONSTANTS
  p1 = p1
  p2 = p2
  None = None
  Old = "first"
  New = "insert"
  Clone <- TwoClones
  Run <- ThreeRuns
  Tag <- ThreeTag
  Nested = {}
  Commit <- MCCommit
  Ancestor <- MCAncestor
  Tip <- MCTip
  TagsOf <- MCTagsOf
  MaxLedger = 4
  MaxFaults = 0
SPECIFICATION Spec
PROPERTIES
  NoUnarchivedClobber
CHECK_DEADLOCK FALSE
