\* Every query with two batches, and streams with a pause in them.
SPECIFICATION FairSpec
CONSTANTS
  None = None
  Index <- TwoFiles
  Streams <- Queries
  SearchRange = 1
  MaxDBCollisions = 2
  MinMatchCount = 2
  MinMatchDiff = 0
  MaxResults = 1
  KeepMatchesFor = 8
  PrintEvery = 3
  Overlap = 1
  Exclude = 0
INVARIANTS
  LookupIsComplete
  TallyIsExact
  QueryTimesAreClose
  BestAreReported
PROPERTIES
  Terminates
  ForgottenWereOld
