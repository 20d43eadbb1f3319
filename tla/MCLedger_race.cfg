CONSTANTS
  w1 = w1
  w2 = w2
  Writer <- TwoWriters
  Action = {"apply"}
  MaxEntries = 5
  Tearing = TRUE
SPECIFICATION Spec
INVARIANTS
  TypeOK
  VerdictTracksHistory
PROPERTIES
  AppendOnly
  NeverHealed
CHECK_DEADLOCK FALSE
