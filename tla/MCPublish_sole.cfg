CONSTANTS
  p1 = p1
  p2 = p2
  None = None
  Old = "first"
  New = "insert"
  Clone <- OneClone
  Run <- AllRuns
  Tag <- MCTag
  Nested <- MCNested
  Commit <- MCCommit
  Ancestor <- MCAncestor
  Tip <- MCTip
  TagsOf <- MCTagsOf
  MaxLedger = 4
  MaxFaults = 1
SPECIFICATION Spec
INVARIANTS
  TypeOK
  NothingLost
  SanctionedOnlyIfArchived
  PublishEventsHappened
PROPERTIES
  HistorySpec
  ReplacementIsRecorded
CHECK_DEADLOCK FALSE
