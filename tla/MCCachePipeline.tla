-------------------------- MODULE MCCachePipeline ---------------------------
(***************************************************************************)
(* Instances of CachePipeline for TLC: two files that can be cached and    *)
(* one that cannot be converted, two threads and the main thread.          *)
(***************************************************************************)
EXTENDS CachePipeline, TLC

CONSTANTS f1, f2, f3, a, b, c, h

Distinct == f1 :> 1 @@ f2 :> 2 @@ f3 :> 3

CommandLine == <<f1, f3, f2>>

\* f1 has a batch before the last one, all of f2 is extracted after the loop.
Batches == f1 :> <<<<a, b>>, <<c>>>> @@ f2 :> <<<<a>>>> @@ f3 :> <<>>

\* Names as the other commands make them: a counter keeps them apart.
OneEach == [w \in 0 .. NumThreads |-> {w}]

\* The main thread and a thread of the pool start in the same millisecond.
SameMillisecond == [w \in 0 .. NumThreads |-> IF w = 2 THEN {2} ELSE {0, 1}]

Twice == [x \in Commands |-> 2]

CachedEntries == f1 :> {<<h, 1>>, <<a, 1>>, <<b, 1>>} @@ f2 :> {<<h, 2>>} @@ f3 :> {<<h, 3>>}
=============================================================================
