SPECIFICATION Spec
CONSTANTS
  Prints <- MCPrints
  Hashes <- MCHashes
  SearchRange = 1
  HashesSize = 4
  ResultsSize = 3
  Around = {2, 30}
  KeySpace = 64
  TimeSpace = 4
  IntHalf = 8
  MaxStored = 5
INVARIANTS
  LookupIsExact
PROPERTIES
  LookupReturns
CHECK_DEADLOCK FALSE
