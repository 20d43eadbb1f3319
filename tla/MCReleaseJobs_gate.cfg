CONSTANTS
  j1 = j1
  j2 = j2
  None = None
  Job = {j1}
  Input = {"first", "append", "other", "flawed", "unreadable"}
  Epoch = {1, 2}
  FirstEpoch = 1
  Commit <- MCCommit
  Tag <- MCTag
  Ancestor <- MCAncestor
  Rendered <- MCRendered
  Sound <- MCSound
  BP2Allows = {}
  MaxMerges = 0
  MaxFaults = 0
SPECIFICATION Spec
PROPERTIES
  SoundReleaseIsPublished
CHECK_DEADLOCK FALSE
