CONSTANTS
  p1 = p1
  p2 = p2
  None = None
  Old = "first"
  New = "insert"
  Clone <- OneClone
  Run <- RaceRuns
  Tag <- RaceTag
  Nested = {}
  Commit <- MCCommit
  Ancestor <- MCAncestor
  Tip <- MCTip
  TagsOf <- MCTagsOf
  MaxLedger = 7
  MaxFaults = 3
SPECIFICATION RetrySpec
PROPERTIES
  PublicationCompletes
CHECK_DEADLOCK FALSE
