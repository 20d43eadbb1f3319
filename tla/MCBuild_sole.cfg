CONSTANTS
  b1 = b1
  r1 = r1
  r2 = r2
  None = None
  Builder <- OneBuilder
  Run <- TwoRuns
  Model = {"P"}
  Epoch = {1, 2}
  Tag = {"v1", "v2"}
  Input <- MCInput
  MaxLedger = 4
  MaxFaults = 1
SPECIFICATION Spec
INVARIANTS
  TypeOK
  InspectedIsBuilt
  TagsOnBranch
  AppliesAreComplete
  RebuildsAgree
SYMMETRY Interchangeable
CHECK_DEADLOCK FALSE
