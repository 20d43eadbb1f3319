CONSTANTS
  j1 = j1
  j2 = j2
  None = None
  Job = {j1, j2}
  Input = {"first", "append", "other", "flawed", "unreadable"}
  Epoch = {1, 2}
  FirstEpoch = 1
  Commit <- MCCommit
  Tag <- MCTag
  Ancestor <- MCAncestor
  Rendered <- MCRendered
  Sound <- MCSound
  BP2Allows = {"source_code"}
  MaxMerges = 1
  MaxFaults = 1
SPECIFICATION Spec
INVARIANTS
  TypeOK
  OneTimestampOnMain
  PublishedIsCovered
  PublishedIsOnMain
  OneEpochPublished
PROPERTIES
  JournalOnMainGrows
  SoundReleaseIsPublished
CHECK_DEADLOCK FALSE
