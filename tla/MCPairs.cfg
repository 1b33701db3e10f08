\* Two event points per fingerprint, every limit within reach: the array of event
\* points, the usages of a point and the array of fingerprints.
SPECIFICATION FairSpec
CONSTANTS
  Bins = {1, 2}
  MaxBlocks = 6
  Marked = 100
  filterSizeTime = 2
  halfFilterSizeTime = 1
  maxEventPoints = 4
  eventPointThreshold = 1
  maxEventPointUsages = 2
  maxFingerprints = 3
  numberOfEPsPerFP = 2
  minTimeDistance = 1
  maxTimeDistance = 2
  minFreqDistance = 0
  maxFreqDistance = 1
INVARIANTS
  LiveSlotsSortedThenMarked
  BatchFits
  BatchHasNoDoubles
PROPERTIES
  Terminates
CHECK_DEADLOCK FALSE
