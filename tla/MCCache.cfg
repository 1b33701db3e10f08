SPECIFICATION Spec
CONSTANTS
  f1 = f1  f2 = f2  f3 = f3  a = a  b = b  c = c  h = h
  None = None
  Files = {f1, f2, f3}
  Ids = {1, 2, 3}
  Id <- Distinct
  Contents <- CachedEntries
  Queue <- CommandLine
  NumThreads = 2
  Prints = {a, b, c}
  Header = h
  Audio <- Batches
  Names = {0, 1, 2}
  NamesFor <- OneEach
  Unconvertible = {f3}
  SkipDuplicates = TRUE
  MayBeNew = TRUE
  MaxRuns <- Twice
  MayCrash = TRUE
INVARIANTS CachedFromOwnAudio EndedCacheIsComplete CachedIsStored 
PROPERTIES IndexSpec
