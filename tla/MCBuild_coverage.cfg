CONSTANTS
  b1 = b1
  r1 = r1
  r2 = r2
  None = None
  Builder <- OneBuilder
  Run <- OneRun
  Model = {"P", "G"}
  Epoch = {1, 2}
  Tag = {"v1", "v2"}
  Input <- MCInput
  MaxLedger = 4
  MaxFaults = 0
SPECIFICATION Spec
INVARIANTS
  Covered
CHECK_DEADLOCK FALSE
