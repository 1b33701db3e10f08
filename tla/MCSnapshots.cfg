\* Transactions 2 to 5: a reader of the first tree has its pages reused by 4.
SPECIFICATION Spec
CONSTANTS
  MaxPages = 5
  Readers = {r}
  MaxTxn <- ThreeCommitsLater
INVARIANTS TypeOK CommittedIsIntact PagesAreAccountedFor SnapshotOutlivesTwoWriters
