\* Three event points per fingerprint, limits within reach.
SPECIFICATION FairSpec
CONSTANTS
  Bins = {1, 2}
  MaxBlocks = 7
  Marked = 100
  filterSizeTime = 2
  halfFilterSizeTime = 1
  maxEventPoints <- LargestArray
  eventPointThreshold = 2
  maxEventPointUsages = 1
  maxFingerprints = 3
  numberOfEPsPerFP = 3
  minTimeDistance = 1
  maxTimeDistance = 2
  minFreqDistance = 0
  maxFreqDistance = 1
INVARIANTS
  ScanAssertions
  PointsDistinct
  AgedPointsWereCombined
  NoEventPointIgnored
CHECK_DEADLOCK FALSE
