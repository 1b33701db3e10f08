SPECIFICATION FairSpec
CONSTANTS
  p1 = p1  p2 = p2  p3 = p3  f1 = f1  f2 = f2  f3 = f3  f4 = f4
  a = a  b = b  c = c  d = d
  None = None
  Processes = {p1, p2, p3}
  Files = {f1, f2, f3, f4}
  Ids = {1, 2, 3, 4}
  Id <- Distinct
  Action <- TwoStoresAndDelete
  Queue <- CommandLines
  NumThreads <- Threads
  Prints = {a, b, c, d}
  Audio <- Batches
  Threshold = 2
  BufferSize = 4
  MaxBatch = 2
  Unconvertible = {f4}
  Unreadable = {f3}
  MayNotFit = {f1}
  MayCrash = TRUE
INVARIANTS OneEnvironmentPerProcess BufferHoldsBatch NoOrphans EndedPoolStoredTheRest
PROPERTIES IndexSpec Terminates
