--------------------------- MODULE MCStoreThreads ---------------------------
(***************************************************************************)
(* An instance of StoreThreads for TLC: three processes on one database.   *)
(***************************************************************************)
EXTENDS StoreThreads, TLC

CONSTANTS p1, p2, p3, f1, f2, f3, f4, a, b, c, d

\* A store with a pool, a delete and a store without a pool.
TwoStoresAndDelete == p1 :> "Store" @@ p2 :> "Delete" @@ p3 :> "Store"

\* Three files for two threads and the main thread.
Threads == p1 :> 2 @@ p2 :> 1 @@ p3 :> 1

\* p2 deletes what p1 stores, or does not store (yet); p3 repeats it too.
CommandLines == p1 :> <<f4, f1, f2>> @@ p2 :> <<f1>> @@ p3 :> <<f3, f1>>

\* With a Threshold of 2: the last batch of f1 stays in the buffer, f2 passes
\* the threshold with a repeated fingerprint, f3 has no fingerprints.
Batches == f1 :> <<<<a, b>>, <<c>>, <<a, d>>>> @@ f2 :> <<<<a>>, <<b, b>>>> @@ f3 :> <<>> @@ f4 :> <<>>

Distinct == f1 :> 1 @@ f2 :> 2 @@ f3 :> 3 @@ f4 :> 4
=============================================================================
