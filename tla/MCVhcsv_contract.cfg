CONSTANTS
  None = None
  Char <- MCChar
  Date <- MCDate
  Padded = FALSE
  File <- MCFile
  Reference <- MCReference
  Fold <- MCFold
SPECIFICATION Spec
INVARIANTS
  TypeOK
  TokenizerIsRFC4180
  AcceptsTheContractAndTwoDepartures
  QuietMeansChronological
  SameBytes
  RoundTrip
  NothingIsConvertedSilently
CHECK_DEADLOCK FALSE
