CONSTANTS
  p1 = p1
  p2 = p2
  None = None
  Old = "first"
  New = "insert"
  Clone <- OneClone
  Run <- RaceRuns
  Tag <- RaceTag
  Nested = {}
  Commit <- MCCommit
  Ancestor <- MCAncestor
  Tip <- MCTip
  TagsOf <- MCTagsOf
  MaxLedger = 7
  MaxFaults = 1
SPECIFICATION RetrySpec
PROPERTIES
  RemediationWorks
CHECK_DEADLOCK FALSE
