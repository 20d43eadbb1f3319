CONSTANTS
  Releases <- MCReleases
  Situation <- MCSituation
SPECIFICATION Spec
INVARIANTS
  TypeOK
  ExitIsContract
  ZeroCertifies
  LegacyHidesNothing
  SelectionIsAnswered
CHECK_DEADLOCK FALSE
