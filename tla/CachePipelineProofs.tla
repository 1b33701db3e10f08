------------------------- MODULE CachePipelineProofs ------------------------
(***************************************************************************)
(* Proofs about CachePipeline, for every number of threads and files: what *)
(* store_cached puts in the index are whole cache files made from the      *)
(* right audio, wherever either command is killed.  First, what the        *)
(* abstract index guarantees whoever writes it.                            *)
(***************************************************************************)
EXTENDS CachePipeline, TLAPS

-----------------------------------------------------------------------------
\* The abstract index.

\* The meta data of a number is that of a file, whatever is stored and deleted.
THEOREM IndexTypeCorrect == IndexSpec => []IndexTypeOK
<1>1. IndexInit => IndexTypeOK
  BY DEF IndexInit, IndexTypeOK
<1>2. IndexTypeOK /\ [IndexNext]_indexVars => IndexTypeOK'
  <2> SUFFICES ASSUME IndexTypeOK, [IndexNext]_indexVars PROVE IndexTypeOK'
    OBVIOUS
  <2>1. ASSUME NEW f \in Files, StoreFile(f) PROVE IndexTypeOK'
    BY <2>1 DEF StoreFile, IndexTypeOK
  <2>2. ASSUME NEW f \in Files, DeleteFile(f) PROVE IndexTypeOK'
    BY <2>2 DEF DeleteFile, IndexTypeOK
  <2>3. CASE UNCHANGED indexVars
    BY <2>3 DEF indexVars, IndexTypeOK
  <2> QED BY <2>1, <2>2, <2>3 DEF IndexNext
<1> QED BY <1>1, <1>2, PTL DEF IndexSpec

\* A file with meta data has all of its entries in the index.  Deleting another
\* file does not take them away: it has the same number, and then the meta data
\* goes too, or no entry in common with it.
THEOREM StoredStaysComplete ==
  ASSUME EntriesCarryTheirId
  PROVE  IndexSpec => []StoredIsComplete
<1>. DEFINE Inv == /\ IndexTypeOK
                   /\ \A i \in Ids : meta[i] # None =>
                        Id[meta[i]] = i /\ Contents[meta[i]] \subseteq fps
<1>1. IndexInit => Inv
  BY DEF IndexInit, IndexTypeOK
<1>2. Inv /\ [IndexNext]_indexVars => Inv'
  <2> SUFFICES ASSUME Inv, [IndexNext]_indexVars PROVE Inv'
    OBVIOUS
  <2>1. ASSUME NEW f \in Files, StoreFile(f) PROVE Inv'
    BY <2>1, IndexAssumption DEF StoreFile, IndexTypeOK
  <2>2. ASSUME NEW f \in Files, DeleteFile(f) PROVE Inv'
    <3>1. IndexTypeOK'
      BY <2>2 DEF DeleteFile, IndexTypeOK
    <3>2. ASSUME NEW i \in Ids, meta'[i] # None
          PROVE  Id[meta'[i]] = i /\ Contents[meta'[i]] \subseteq fps'
      <4>1. i # Id[f] /\ meta'[i] = meta[i]
        BY <2>2, <3>2, IndexAssumption DEF DeleteFile, IndexTypeOK
      <4>2. meta[i] \in Files /\ Id[meta[i]] = i /\ Contents[meta[i]] \subseteq fps
        BY <3>2, <4>1 DEF IndexTypeOK
      <4>3. Contents[meta[i]] \cap Contents[f] = {}
        BY <4>1, <4>2 DEF EntriesCarryTheirId
      <4> QED BY <2>2, <4>1, <4>2, <4>3 DEF DeleteFile
    <3> QED BY <3>1, <3>2
  <2>3. CASE UNCHANGED indexVars
    BY <2>3 DEF indexVars, IndexTypeOK
  <2> QED BY <2>1, <2>2, <2>3 DEF IndexNext
<1>3. Inv => StoredIsComplete
  BY DEF StoredIsComplete
<1> QED BY <1>1, <1>2, <1>3, PTL DEF IndexSpec

\* What NoOrphans needs to be inductive: a number has the meta data of a file
\* that is stored under it.
OrphanInv == /\ IndexTypeOK
             /\ \A i \in Ids : meta[i] # None => Id[meta[i]] = i
             /\ NoOrphans

LEMMA OrphanInit == IndexInit => OrphanInv
  BY DEF IndexInit, IndexTypeOK, NoOrphans, OrphanInv

LEMMA OrphanStep ==
  ASSUME IdsAreUnique, OrphanInv, [IndexNext]_indexVars
  PROVE  OrphanInv'
<1> USE DEF OrphanInv
<1>1. ASSUME NEW f \in Files, StoreFile(f) PROVE OrphanInv'
  <2>1. IndexTypeOK' /\ (\A i \in Ids : meta'[i] # None => Id[meta'[i]] = i)
    BY <1>1, IndexAssumption DEF StoreFile, IndexTypeOK
  <2>2. ASSUME NEW e \in fps'
        PROVE  \E i \in Ids : meta'[i] # None /\ e \in Contents[meta'[i]]
    <3>1. Id[f] \in Ids /\ meta'[Id[f]] = f /\ f # None
      BY <1>1, IndexAssumption DEF StoreFile, IndexTypeOK
    <3>2. CASE e \in Contents[f]
      BY <3>1, <3>2
    <3>3. CASE e \in fps
      <4>1. PICK i \in Ids : meta[i] # None /\ e \in Contents[meta[i]]
        BY <3>3 DEF NoOrphans
      <4>2. CASE i = Id[f]
        <5>1. meta[i] = f
          BY <4>1, <4>2 DEF IndexTypeOK, IdsAreUnique
        <5> QED BY <3>1, <4>1, <4>2, <5>1
      <4>3. CASE i # Id[f]
        <5>1. meta'[i] = meta[i]
          BY <1>1, <4>3 DEF StoreFile, IndexTypeOK
        <5> QED BY <4>1, <5>1
      <4> QED BY <4>2, <4>3
    <3> QED BY <1>1, <3>2, <3>3 DEF StoreFile
  <2> QED BY <2>1, <2>2 DEF NoOrphans
<1>2. ASSUME NEW f \in Files, DeleteFile(f) PROVE OrphanInv'
  <2>1. IndexTypeOK' /\ (\A i \in Ids : meta'[i] # None => Id[meta'[i]] = i)
    BY <1>2, IndexAssumption DEF DeleteFile, IndexTypeOK
  <2>2. ASSUME NEW e \in fps'
        PROVE  \E i \in Ids : meta'[i] # None /\ e \in Contents[meta'[i]]
    <3>1. e \in fps /\ e \notin Contents[f]
      BY <1>2 DEF DeleteFile
    <3>2. PICK i \in Ids : meta[i] # None /\ e \in Contents[meta[i]]
      BY <3>1 DEF NoOrphans
    <3>3. i # Id[f]
      BY <3>1, <3>2 DEF IndexTypeOK, IdsAreUnique
    <3>4. meta'[i] = meta[i]
      BY <1>2, <3>3 DEF DeleteFile, IndexTypeOK
    <3> QED BY <3>2, <3>4
  <2> QED BY <2>1, <2>2 DEF NoOrphans
<1>3. CASE UNCHANGED indexVars
  BY <1>3 DEF indexVars, IndexTypeOK, NoOrphans
<1> QED BY <1>1, <1>2, <1>3 DEF IndexNext

\* Files that are never stored under the number of another leave nothing behind
\* when they are deleted.
THEOREM NothingIsOrphaned ==
  ASSUME IdsAreUnique
  PROVE  IndexSpec => []NoOrphans
<1>1. OrphanInv => NoOrphans
  BY DEF OrphanInv
<1>2. OrphanInv /\ [IndexNext]_indexVars => OrphanInv'
  BY OrphanStep
<1> QED BY <1>1, <1>2, OrphanInit, PTL DEF IndexSpec

-----------------------------------------------------------------------------
\* Facts about the operators of the module.

\* Workers only make up names for raw files.
LEMMA WorkerNames == \A w \in Workers : NamesFor[w] \subseteq Names /\ None \notin NamesFor[w]
<1>1. NumThreads \in Nat /\ Len(Queue) \in Nat
  BY CacheAssumption
<1>2. Workers \subseteq 0 .. NumThreads
  BY <1>1 DEF Workers, Parallel, ActualThreads
<1> QED BY <1>2, CacheAssumption

\* The lines of a cache file are fingerprints and the header.
LEMMA RowsType ==
  ASSUME NEW f \in Files, NEW k \in 0 .. LastWritten(f)
  PROVE  RowsUpTo(f, k) \subseteq Prints \cup {Header}
<1>1. Audio[f] \in Seq(Seq(Prints))
  BY CacheAssumption
<1>2. \A i \in 1 .. Len(Audio[f]) : Audio[f][i] \in Seq(Prints)
  BY <1>1
<1>3. \A i \in 1 .. k : i \in 1 .. Len(Audio[f])
  <2>1. Len(Audio[f]) \in Nat /\ (Audio[f] = <<>> => Len(Audio[f]) = 0)
    BY <1>1
  <2>2. LastWritten(f) \in Nat /\ LastWritten(f) <= Len(Audio[f])
    BY <2>1, <1>1 DEF LastWritten
  <2> QED BY <2>1, <2>2
<1>4. \A i \in 1 .. k : Range(Audio[f][i]) \subseteq Prints
  BY <1>2, <1>3 DEF Range
<1> QED BY <1>4 DEF RowsUpTo

\* So are those of a finished one.
LEMMA FinishedRowsType == \A f \in Files : Rows(f) \subseteq Prints \cup {Header}
<1> SUFFICES ASSUME NEW f \in Files PROVE Rows(f) \subseteq Prints \cup {Header}
  OBVIOUS
<1>1. Audio[f] \in Seq(Seq(Prints))
  BY CacheAssumption
<1>2. LastWritten(f) \in 0 .. LastWritten(f)
  BY <1>1 DEF LastWritten
<1> QED BY <1>2, RowsType DEF Rows

\* What is left of a sequence without doubles.
LEMMA TailFacts ==
  ASSUME NEW S, NEW q \in Seq(S), q # <<>>
  PROVE  /\ Head(q) \in S
         /\ Head(q) = q[1] /\ 1 \in DOMAIN q
         /\ Tail(q) \in Seq(S)
         /\ \A i \in DOMAIN Tail(q) : i + 1 \in DOMAIN q /\ Tail(q)[i] = q[i + 1] /\ i \in Nat \ {0}
  OBVIOUS

\* A member of a sequence is its head or in its tail.
LEMMA TakenOrLeft ==
  ASSUME NEW S, NEW q \in Seq(S), q # <<>>
  PROVE  \A x \in Range(q) : x = Head(q) \/ x \in Range(Tail(q))
<1> SUFFICES ASSUME NEW i \in DOMAIN q, i # 1 PROVE q[i] \in Range(Tail(q))
  BY TailFacts DEF Range
<1>1. i - 1 \in DOMAIN Tail(q) /\ Tail(q)[i - 1] = q[i]
  OBVIOUS
<1> QED BY <1>1 DEF Range

-----------------------------------------------------------------------------
\* The steps of store_cached leave everything of cache alone, and the other way
\* round.
LEMMA StorerSteps ==
  ASSUME TypeOK, StartStoreCached \/ StoreCached \/ StoreCachedCrashes
  PROVE  /\ UNCHANGED <<folder, rawFiles, queue, errors, worker>>
         /\ status'["cache"] = status["cache"]
<1>. USE DEF TypeOK, Commands
<1>1. CASE StartStoreCached
  BY <1>1 DEF StartStoreCached
<1>2. CASE StoreCachedCrashes
  BY <1>2 DEF StoreCachedCrashes
<1>3. CASE StoreCached
  BY <1>3 DEF StoreCached, SkipIncomplete, NextCacheFile, DatabaseIsMissing, SkipDuplicate,
              IsNew, StoreCachedFile, StoreCachedEnds, ForgetLocals, run, index
<1> QED BY <1>1, <1>2, <1>3

LEMMA CacheSteps ==
  ASSUME StartCache \/ CacheEnds \/ CacheCrashes \/ \E w \in Workers : Cache(w)
  PROVE  UNCHANGED <<index, storer>>
  BY DEF StartCache, CacheEnds, CacheCrashes, Cache, TakeTask, SkipPresent, NameRawFile,
         ConversionFails, DeleteRawFile, ConversionBegins, ConversionEnds, OpenCacheFiles, Extract,
         CloseCacheFile, WriteMetaFile, FileIsCached, run

\* No two workers that have a raw file have the same one.
LEMMA OneNameEach ==
  ASSUME NamesAreUnique, WorkInv
  PROVE  \A v, w \in Workers : v # w /\ temp[v] # None => temp[v] # temp[w]
  BY WorkerNames, CacheAssumption DEF NamesAreUnique, WorkInv

\* Past the look for a .tdb file a worker has a name.
LEMMA WorkersHaveNames ==
  ASSUME WorkInv
  PROVE  \A w \in Workers : pc[w] \notin {"idle", "check"} => temp[w] \in Names /\ temp[w] # None
<1> SUFFICES ASSUME NEW w \in Workers, pc[w] \notin {"idle", "check"}
             PROVE  temp[w] \in Names /\ temp[w] # None
  OBVIOUS
<1>1. temp[w] \in NamesFor[w]
  BY DEF WorkInv
<1>2. NamesFor[w] \subseteq Names /\ None \notin NamesFor[w]
  BY WorkerNames
<1> QED BY <1>1, <1>2

\* Every worker has what the place it is at calls for.
LEMMA WorkKept ==
  ASSUME TypeOK, WorkInv, [Next]_vars
  PROVE  WorkInv'
<1>. USE IndexAssumption DEF TypeOK, WorkInv, index, folder, rawFiles, run, worker, storer
<1>1. ASSUME NEW w \in Workers, TakeTask(w) PROVE WorkInv'
  BY <1>1 DEF TakeTask
<1>2. ASSUME NEW w \in Workers, SkipPresent(w) PROVE WorkInv'
  BY <1>2 DEF SkipPresent
<1>3. ASSUME NEW w \in Workers, NameRawFile(w) PROVE WorkInv'
  BY <1>3, CacheAssumption DEF NameRawFile
<1>4. ASSUME NEW w \in Workers, ConversionFails(w) PROVE WorkInv'
  BY <1>4 DEF ConversionFails, DeleteRawFile
<1>5. ASSUME NEW w \in Workers, ConversionBegins(w) PROVE WorkInv'
  BY <1>5 DEF ConversionBegins
<1>6. ASSUME NEW w \in Workers, ConversionEnds(w) PROVE WorkInv'
  BY <1>6 DEF ConversionEnds
<1>7. ASSUME NEW w \in Workers, OpenCacheFiles(w) PROVE WorkInv'
  BY <1>7 DEF OpenCacheFiles
<1>8. ASSUME NEW w \in Workers, Extract(w) PROVE WorkInv'
  BY <1>8 DEF Extract
<1>9. ASSUME NEW w \in Workers, CloseCacheFile(w) PROVE WorkInv'
  BY <1>9 DEF CloseCacheFile
<1>10. ASSUME NEW w \in Workers, WriteMetaFile(w) PROVE WorkInv'
  BY <1>10 DEF WriteMetaFile
<1>11. ASSUME NEW w \in Workers, FileIsCached(w) PROVE WorkInv'
  BY <1>11 DEF FileIsCached, DeleteRawFile
<1>12. CASE StartCache
  BY <1>12 DEF StartCache
<1>13. CASE CacheEnds
  BY <1>13 DEF CacheEnds
<1>14. CASE CacheCrashes
  BY <1>14 DEF CacheCrashes
<1>15. CASE StartStoreCached \/ StoreCached \/ StoreCachedCrashes
  <2>1. UNCHANGED worker
    BY <1>15, StorerSteps
  <2> QED BY <2>1
<1>16. CASE UNCHANGED vars
  BY <1>16 DEF vars
<1>. HIDE DEF TypeOK, WorkInv, index, folder, rawFiles, run, worker, storer
<1> QED BY <1>1, <1>2, <1>3, <1>4, <1>5, <1>6, <1>7, <1>8,
           <1>9, <1>10, <1>11, <1>12, <1>13, <1>14, <1>15, <1>16 DEF Next, Cache, AllEnded

\* No file is handled twice in a run.
LEMMA TasksKept ==
  ASSUME QueueHasNoDoubles, TypeOK, WorkInv, TaskInv, [Next]_vars
  PROVE  TaskInv'
<1>. USE IndexAssumption DEF TypeOK, WorkInv, TaskInv, index, folder, rawFiles, run, worker, storer
<1>1. ASSUME NEW w \in Workers, TakeTask(w) PROVE TaskInv'
  <2>1. queue \in Seq(Files) /\ queue # <<>> /\ queue' = Tail(queue) /\ None \notin Files
    BY <1>1 DEF TakeTask
  <2>2. /\ file' = [file EXCEPT ![w] = queue[1]]
        /\ pc' = [pc EXCEPT ![w] = "check"]
        /\ 1 \in DOMAIN queue /\ queue[1] \in Files
    BY <1>1, <2>1, TailFacts DEF TakeTask
  <2>3. \A i \in DOMAIN queue' :
          i + 1 \in DOMAIN queue /\ i + 1 # 1 /\ queue'[i] = queue[i + 1] /\ i \in Nat
    BY <2>1, TailFacts
  <2>4. \A i, j \in DOMAIN queue' : queue'[i] = queue'[j] => i = j
    BY <2>3
  <2>5. \A v \in Workers, i \in DOMAIN queue' : file'[v] # queue'[i]
    BY <2>2, <2>3
  <2>6. \A v, u \in Workers : file'[v] = file'[u] /\ file'[v] # None => v = u
    BY <2>2
  <2>7. status' = status
    BY <1>1 DEF TakeTask
  <2> QED BY <2>2, <2>4, <2>5, <2>6, <2>7, <1>1 DEF TakeTask
<1>2. ASSUME NEW w \in Workers, SkipPresent(w) PROVE TaskInv'
  BY <1>2 DEF SkipPresent
<1>3. ASSUME NEW w \in Workers, NameRawFile(w) PROVE TaskInv'
  BY <1>3 DEF NameRawFile
<1>4. ASSUME NEW w \in Workers, ConversionFails(w) PROVE TaskInv'
  BY <1>4 DEF ConversionFails, DeleteRawFile
<1>5. ASSUME NEW w \in Workers, ConversionBegins(w) PROVE TaskInv'
  BY <1>5 DEF ConversionBegins
<1>6. ASSUME NEW w \in Workers, ConversionEnds(w) PROVE TaskInv'
  BY <1>6 DEF ConversionEnds
<1>7. ASSUME NEW w \in Workers, OpenCacheFiles(w) PROVE TaskInv'
  BY <1>7 DEF OpenCacheFiles
<1>8. ASSUME NEW w \in Workers, Extract(w) PROVE TaskInv'
  BY <1>8 DEF Extract
<1>9. ASSUME NEW w \in Workers, CloseCacheFile(w) PROVE TaskInv'
  BY <1>9 DEF CloseCacheFile
<1>10. ASSUME NEW w \in Workers, WriteMetaFile(w) PROVE TaskInv'
  BY <1>10 DEF WriteMetaFile
<1>11. ASSUME NEW w \in Workers, FileIsCached(w) PROVE TaskInv'
  BY <1>11 DEF FileIsCached, DeleteRawFile
<1>12. CASE StartCache
  <2>1. Queue \in Seq(Files) /\ queue' = Queue /\ UNCHANGED <<file, pc>> /\ status' = [status EXCEPT !["cache"] = "running"]
    BY <1>12, CacheAssumption DEF StartCache
  <2>2. \A w \in Workers : file'[w] = None
    BY <1>12, <2>1 DEF StartCache
  <2>3. \A i \in DOMAIN queue' : queue'[i] \in Files
    BY <2>1
  <2>4. status'["cache"] = "running"
    BY <2>1 DEF Commands
  <2> QED BY <2>1, <2>2, <2>3, <2>4 DEF QueueHasNoDoubles
<1>13. CASE CacheEnds
  BY <1>13 DEF CacheEnds
<1>14. CASE CacheCrashes
  BY <1>14 DEF CacheCrashes
<1>15. CASE StartStoreCached \/ StoreCached \/ StoreCachedCrashes
  BY <1>15, StorerSteps
<1>16. CASE UNCHANGED vars
  BY <1>16 DEF vars
<1>. HIDE DEF TypeOK, WorkInv, TaskInv, index, folder, rawFiles, run, worker, storer
<1> QED BY <1>1, <1>2, <1>3, <1>4, <1>5, <1>6, <1>7, <1>8,
           <1>9, <1>10, <1>11, <1>12, <1>13, <1>14, <1>15, <1>16 DEF Next, Cache, AllEnded

\* Raw files have one owner.
LEMMA RawKept ==
  ASSUME NamesAreUnique, TypeOK, WorkInv, RawInv, [Next]_vars
  PROVE  RawInv'
<1>. USE IndexAssumption DEF TypeOK, WorkInv, RawInv, index, folder, rawFiles, run, worker, storer
<1>1. ASSUME NEW w \in Workers, TakeTask(w) PROVE RawInv'
  BY <1>1 DEF TakeTask
<1>2. ASSUME NEW w \in Workers, SkipPresent(w) PROVE RawInv'
  BY <1>2 DEF SkipPresent
<1>3. ASSUME NEW w \in Workers, NameRawFile(w) PROVE RawInv'
  BY <1>3 DEF NameRawFile
<1>4. ASSUME NEW w \in Workers, ConversionFails(w) PROVE RawInv'
  <2>1. \A v \in Workers : v # w /\ temp[v] # None => temp[v] # temp[w]
    BY <1>4, OneNameEach DEF ConversionFails
  <2>2. temp[w] \in Names
    BY <1>4, WorkerNames DEF ConversionFails
  <2>3. \A v \in Workers : v # w =>
          /\ pc'[v] = pc[v] /\ file'[v] = file[v] /\ temp'[v] = temp[v]
          /\ temp[v] # None => raw'[temp[v]] = raw[temp[v]] /\ whole'[temp[v]] = whole[temp[v]]
    BY <2>1, <2>2, <1>4, ZenonT(60) DEF ConversionFails, DeleteRawFile
  <2>4. /\ pc'[w] \in {"converting", "open", "extract"} => raw'[temp'[w]] = file'[w]
        /\ pc'[w] \in {"open", "extract"} => whole'[temp'[w]]
    BY <2>2, <1>4 DEF ConversionFails, DeleteRawFile
  <2>5. \A v \in Workers : pc[v] \in {"converting", "open", "extract"} => temp[v] # None
    BY WorkersHaveNames
  <2> QED BY <2>3, <2>4, <2>5
<1>5. ASSUME NEW w \in Workers, ConversionBegins(w) PROVE RawInv'
  <2>1. \A v \in Workers : v # w /\ temp[v] # None => temp[v] # temp[w]
    BY <1>5, OneNameEach DEF ConversionBegins
  <2>2. temp[w] \in Names
    BY <1>5, WorkerNames DEF ConversionBegins
  <2>3. \A v \in Workers : v # w =>
          /\ pc'[v] = pc[v] /\ file'[v] = file[v] /\ temp'[v] = temp[v]
          /\ temp[v] # None => raw'[temp[v]] = raw[temp[v]] /\ whole'[temp[v]] = whole[temp[v]]
    BY <2>1, <2>2, <1>5, ZenonT(60) DEF ConversionBegins
  <2>4. /\ pc'[w] \in {"converting", "open", "extract"} => raw'[temp'[w]] = file'[w]
        /\ pc'[w] \in {"open", "extract"} => whole'[temp'[w]]
    BY <2>2, <1>5 DEF ConversionBegins
  <2>5. \A v \in Workers : pc[v] \in {"converting", "open", "extract"} => temp[v] # None
    BY WorkersHaveNames
  <2> QED BY <2>3, <2>4, <2>5
<1>6. ASSUME NEW w \in Workers, ConversionEnds(w) PROVE RawInv'
  <2>1. \A v \in Workers : v # w /\ temp[v] # None => temp[v] # temp[w]
    BY <1>6, OneNameEach DEF ConversionEnds
  <2>2. temp[w] \in Names
    BY <1>6, WorkerNames DEF ConversionEnds
  <2>3. \A v \in Workers : v # w =>
          /\ pc'[v] = pc[v] /\ file'[v] = file[v] /\ temp'[v] = temp[v]
          /\ temp[v] # None => raw'[temp[v]] = raw[temp[v]] /\ whole'[temp[v]] = whole[temp[v]]
    BY <2>1, <2>2, <1>6 DEF ConversionEnds
  <2>4. /\ pc'[w] \in {"converting", "open", "extract"} => raw'[temp'[w]] = file'[w]
        /\ pc'[w] \in {"open", "extract"} => whole'[temp'[w]]
    BY <2>2, <1>6 DEF ConversionEnds
  <2>5. \A v \in Workers : pc[v] \in {"converting", "open", "extract"} => temp[v] # None
    BY WorkersHaveNames
  <2> QED BY <2>3, <2>4, <2>5
<1>7. ASSUME NEW w \in Workers, OpenCacheFiles(w) PROVE RawInv'
  BY <1>7 DEF OpenCacheFiles
<1>8. ASSUME NEW w \in Workers, Extract(w) PROVE RawInv'
  BY <1>8 DEF Extract
<1>9. ASSUME NEW w \in Workers, CloseCacheFile(w) PROVE RawInv'
  BY <1>9 DEF CloseCacheFile
<1>10. ASSUME NEW w \in Workers, WriteMetaFile(w) PROVE RawInv'
  BY <1>10 DEF WriteMetaFile
<1>11. ASSUME NEW w \in Workers, FileIsCached(w) PROVE RawInv'
  <2>1. \A v \in Workers : v # w /\ temp[v] # None => temp[v] # temp[w]
    BY <1>11, OneNameEach DEF FileIsCached
  <2>2. temp[w] \in Names
    BY <1>11, WorkerNames DEF FileIsCached
  <2>3. \A v \in Workers : v # w =>
          /\ pc'[v] = pc[v] /\ file'[v] = file[v] /\ temp'[v] = temp[v]
          /\ temp[v] # None => raw'[temp[v]] = raw[temp[v]] /\ whole'[temp[v]] = whole[temp[v]]
    BY <2>1, <2>2, <1>11, ZenonT(60) DEF FileIsCached, DeleteRawFile
  <2>4. /\ pc'[w] \in {"converting", "open", "extract"} => raw'[temp'[w]] = file'[w]
        /\ pc'[w] \in {"open", "extract"} => whole'[temp'[w]]
    BY <2>2, <1>11 DEF FileIsCached, DeleteRawFile
  <2>5. \A v \in Workers : pc[v] \in {"converting", "open", "extract"} => temp[v] # None
    BY WorkersHaveNames
  <2> QED BY <2>3, <2>4, <2>5
<1>12. CASE StartCache
  BY <1>12 DEF StartCache
<1>13. CASE CacheEnds
  BY <1>13 DEF CacheEnds
<1>14. CASE CacheCrashes
  BY <1>14 DEF CacheCrashes
<1>15. CASE StartStoreCached \/ StoreCached \/ StoreCachedCrashes
  BY <1>15, StorerSteps
<1>16. CASE UNCHANGED vars
  BY <1>16 DEF vars
<1>. HIDE DEF TypeOK, WorkInv, RawInv, index, folder, rawFiles, run, worker, storer
<1> QED BY <1>1, <1>2, <1>3, <1>4, <1>5, <1>6, <1>7, <1>8,
           <1>9, <1>10, <1>11, <1>12, <1>13, <1>14, <1>15, <1>16 DEF Next, Cache, AllEnded

\* A worker finds the cache files as it left them.
LEMMA MadeKept ==
  ASSUME IdsAreUnique, TypeOK, WorkInv, TaskInv, RawInv, MadeInv, [Next]_vars
  PROVE  MadeInv'
<1>. USE IndexAssumption DEF TypeOK, WorkInv, TaskInv, RawInv, MadeInv, IdsAreUnique, index, folder, rawFiles, run, worker, storer
<1>1. ASSUME NEW w \in Workers, TakeTask(w) PROVE MadeInv'
  BY <1>1 DEF TakeTask
<1>2. ASSUME NEW w \in Workers, SkipPresent(w) PROVE MadeInv'
  BY <1>2 DEF SkipPresent
<1>3. ASSUME NEW w \in Workers, NameRawFile(w) PROVE MadeInv'
  BY <1>3 DEF NameRawFile
<1>4. ASSUME NEW w \in Workers, ConversionFails(w) PROVE MadeInv'
  BY <1>4 DEF ConversionFails, DeleteRawFile
<1>5. ASSUME NEW w \in Workers, ConversionBegins(w) PROVE MadeInv'
  BY <1>5 DEF ConversionBegins
<1>6. ASSUME NEW w \in Workers, ConversionEnds(w) PROVE MadeInv'
  BY <1>6 DEF ConversionEnds
<1>7. ASSUME NEW w \in Workers, OpenCacheFiles(w) PROVE MadeInv'
  BY <1>7 DEF OpenCacheFiles
<1>8. ASSUME NEW w \in Workers, Extract(w) PROVE MadeInv'
  BY <1>8 DEF Extract
<1>9. ASSUME NEW w \in Workers, CloseCacheFile(w) PROVE MadeInv'
  BY <1>9 DEF CloseCacheFile
<1>10. ASSUME NEW w \in Workers, WriteMetaFile(w) PROVE MadeInv'
  BY <1>10 DEF WriteMetaFile
<1>11. ASSUME NEW w \in Workers, FileIsCached(w) PROVE MadeInv'
  BY <1>11 DEF FileIsCached, DeleteRawFile
<1>12. CASE StartCache
  BY <1>12 DEF StartCache
<1>13. CASE CacheEnds
  BY <1>13 DEF CacheEnds
<1>14. CASE CacheCrashes
  BY <1>14 DEF CacheCrashes
<1>15. CASE StartStoreCached \/ StoreCached \/ StoreCachedCrashes
  BY <1>15, StorerSteps
<1>16. CASE UNCHANGED vars
  BY <1>16 DEF vars
<1>. HIDE DEF TypeOK, WorkInv, TaskInv, RawInv, MadeInv, IdsAreUnique, index, folder, rawFiles, run, worker, storer
<1> QED BY <1>1, <1>2, <1>3, <1>4, <1>5, <1>6, <1>7, <1>8,
           <1>9, <1>10, <1>11, <1>12, <1>13, <1>14, <1>15, <1>16 DEF Next, Cache, AllEnded

\* A path in a .meta file is written last.
LEMMA PathsKept ==
  ASSUME TypeOK, WorkInv, MadeInv, PathInv, [Next]_vars
  PROVE  PathInv'
<1>. USE IndexAssumption DEF TypeOK, WorkInv, MadeInv, PathInv, index, folder, rawFiles, run, worker, storer
<1>1. ASSUME NEW w \in Workers, TakeTask(w) PROVE PathInv'
  BY <1>1 DEF TakeTask
<1>2. ASSUME NEW w \in Workers, SkipPresent(w) PROVE PathInv'
  BY <1>2 DEF SkipPresent
<1>3. ASSUME NEW w \in Workers, NameRawFile(w) PROVE PathInv'
  BY <1>3 DEF NameRawFile
<1>4. ASSUME NEW w \in Workers, ConversionFails(w) PROVE PathInv'
  BY <1>4 DEF ConversionFails, DeleteRawFile
<1>5. ASSUME NEW w \in Workers, ConversionBegins(w) PROVE PathInv'
  BY <1>5 DEF ConversionBegins
<1>6. ASSUME NEW w \in Workers, ConversionEnds(w) PROVE PathInv'
  BY <1>6 DEF ConversionEnds
<1>7. ASSUME NEW w \in Workers, OpenCacheFiles(w) PROVE PathInv'
  BY <1>7 DEF OpenCacheFiles
<1>8. ASSUME NEW w \in Workers, Extract(w) PROVE PathInv'
  BY <1>8 DEF Extract
<1>9. ASSUME NEW w \in Workers, CloseCacheFile(w) PROVE PathInv'
  BY <1>9 DEF CloseCacheFile
<1>10. ASSUME NEW w \in Workers, WriteMetaFile(w) PROVE PathInv'
  BY <1>10 DEF WriteMetaFile
<1>11. ASSUME NEW w \in Workers, FileIsCached(w) PROVE PathInv'
  BY <1>11 DEF FileIsCached, DeleteRawFile
<1>12. CASE StartCache
  BY <1>12 DEF StartCache
<1>13. CASE CacheEnds
  BY <1>13 DEF CacheEnds
<1>14. CASE CacheCrashes
  BY <1>14 DEF CacheCrashes
<1>15. CASE StartStoreCached \/ StoreCached \/ StoreCachedCrashes
  BY <1>15, StorerSteps
<1>16. CASE UNCHANGED vars
  BY <1>16 DEF vars
<1>. HIDE DEF TypeOK, WorkInv, MadeInv, PathInv, index, folder, rawFiles, run, worker, storer
<1> QED BY <1>1, <1>2, <1>3, <1>4, <1>5, <1>6, <1>7, <1>8,
           <1>9, <1>10, <1>11, <1>12, <1>13, <1>14, <1>15, <1>16 DEF Next, Cache, AllEnded

\* Every variable keeps its type.
LEMMA TypeKept ==
  ASSUME TypeOK, WorkInv, ReadInv, [Next]_vars
  PROVE  TypeOK'
<1>. USE IndexAssumption DEF TypeOK, IndexTypeOK, Commands, WorkInv, ReadInv, index, folder, rawFiles, run, worker, storer
<1>1. ASSUME NEW w \in Workers, TakeTask(w) PROVE TypeOK'
  <2>1. Head(queue) \in Files /\ Tail(queue) \in Seq(Files)
    BY <1>1, TailFacts DEF TakeTask
  <2> QED BY <1>1, <2>1 DEF TakeTask
<1>2. ASSUME NEW w \in Workers, SkipPresent(w) PROVE TypeOK'
  BY <1>2 DEF SkipPresent
<1>3. ASSUME NEW w \in Workers, NameRawFile(w) PROVE TypeOK'
  <2>1. NamesFor[w] \subseteq Names
    BY WorkerNames
  <2> QED BY <1>3, <2>1 DEF NameRawFile
<1>4. ASSUME NEW w \in Workers, ConversionFails(w) PROVE TypeOK'
  <2>1. temp[w] \in Names /\ file[w] \in Files
    BY <1>4, WorkersHaveNames DEF ConversionFails
  <2>2. <<>> \in Seq(Files)
    OBVIOUS
  <2> QED BY <1>4, <2>1, <2>2 DEF ConversionFails, DeleteRawFile
<1>5. ASSUME NEW w \in Workers, ConversionBegins(w) PROVE TypeOK'
  <2>1. temp[w] \in Names /\ file[w] \in Files
    BY <1>5, WorkersHaveNames DEF ConversionBegins
  <2> QED BY <1>5, <2>1 DEF ConversionBegins
<1>6. ASSUME NEW w \in Workers, ConversionEnds(w) PROVE TypeOK'
  <2>1. temp[w] \in Names /\ file[w] \in Files
    BY <1>6, WorkersHaveNames DEF ConversionEnds
  <2> QED BY <1>6, <2>1 DEF ConversionEnds
<1>7. ASSUME NEW w \in Workers, OpenCacheFiles(w) PROVE TypeOK'
  <2>1. file[w] \in Files /\ Id[file[w]] \in Ids
    BY <1>7 DEF OpenCacheFiles
  <2> QED BY <1>7, <2>1 DEF OpenCacheFiles
<1>8. ASSUME NEW w \in Workers, Extract(w) PROVE TypeOK'
  <2>1. temp[w] \in Names
    BY <1>8, WorkersHaveNames DEF Extract
  <2>2. raw[temp[w]] # None => \A k \in 0 .. LastWritten(raw[temp[w]]) :
          RowsUpTo(raw[temp[w]], k) \subseteq Prints \cup {Header}
    BY <2>1, RowsType
  <2>3. rows' \in [Ids -> SUBSET (Prints \cup {Header})]
    <3>1. CASE raw[temp[w]] = None
      BY <1>8, <3>1 DEF Extract
    <3>2. CASE raw[temp[w]] # None
      <4>1. PICK k \in 0 .. LastWritten(raw[temp[w]]) :
              rows' = [rows EXCEPT ![Id[file[w]]] = RowsUpTo(raw[temp[w]], k)]
        BY <1>8, <3>2 DEF Extract
      <4>2. RowsUpTo(raw[temp[w]], k) \subseteq Prints \cup {Header}
        BY <2>2, <3>2
      <4> QED BY <4>1, <4>2
    <3> QED BY <3>1, <3>2
  <2>4. /\ pc' \in [Workers -> {"idle", "check", "convert", "converting", "open", "extract",
                                "close", "path", "delete"}]
        /\ source' \in [Workers -> Files \cup {None}]
    BY <1>8, <2>1 DEF Extract
  <2> QED BY <1>8, <2>3, <2>4 DEF Extract
<1>9. ASSUME NEW w \in Workers, CloseCacheFile(w) PROVE TypeOK'
  <2>1. source[w] # None => Rows(source[w]) \subseteq Prints \cup {Header}
    BY FinishedRowsType
  <2>2. file[w] \in Files /\ Id[file[w]] \in Ids
    BY <1>9 DEF CloseCacheFile
  <2> QED BY <1>9, <2>1, <2>2 DEF CloseCacheFile
<1>10. ASSUME NEW w \in Workers, WriteMetaFile(w) PROVE TypeOK'
  <2>1. file[w] \in Files /\ Id[file[w]] \in Ids
    BY <1>10 DEF WriteMetaFile
  <2> QED BY <1>10, <2>1 DEF WriteMetaFile
<1>11. ASSUME NEW w \in Workers, FileIsCached(w) PROVE TypeOK'
  <2>1. temp[w] \in Names
    BY <1>11, WorkersHaveNames DEF FileIsCached
  <2> QED BY <1>11, <2>1 DEF FileIsCached, DeleteRawFile
<1>12. CASE StartCache
  <2>1. Queue \in Seq(Files)
    BY CacheAssumption
  <2> QED BY <1>12, <2>1 DEF StartCache
<1>13. CASE CacheEnds
  BY <1>13 DEF CacheEnds
<1>14. CASE CacheCrashes
  <2>1. <<>> \in Seq(Files)
    OBVIOUS
  <2> QED BY <1>14, <2>1 DEF CacheCrashes
<1>15. CASE StartStoreCached
  BY <1>15 DEF StartStoreCached
<1>16. CASE SkipIncomplete
  BY <1>16 DEF SkipIncomplete
<1>17. CASE NextCacheFile
  BY <1>17 DEF NextCacheFile
<1>18. CASE DatabaseIsMissing
  BY <1>18 DEF DatabaseIsMissing, ForgetLocals
<1>19. CASE SkipDuplicate
  BY <1>19 DEF SkipDuplicate
<1>20. CASE IsNew
  BY <1>20 DEF IsNew
<1>21. CASE StoreCachedFile
  BY <1>21 DEF StoreCachedFile
<1>22. CASE StoreCachedEnds
  BY <1>22 DEF StoreCachedEnds, ForgetLocals
<1>23. CASE StoreCachedCrashes
  BY <1>23 DEF StoreCachedCrashes, ForgetLocals
<1>24. CASE UNCHANGED vars
  BY <1>24 DEF vars
<1>. HIDE DEF TypeOK, IndexTypeOK, Commands, WorkInv, ReadInv, index, folder, rawFiles, run, worker, storer
<1> QED BY <1>1, <1>2, <1>3, <1>4, <1>5, <1>6, <1>7, <1>8, <1>9, <1>10, <1>11, <1>12,
           <1>13, <1>14, <1>15, <1>16, <1>17, <1>18, <1>19, <1>20, <1>21, <1>22, <1>23, <1>24
        DEF Next, Cache, StoreCached, AllEnded

\* A .meta file that has been read is not written again.
LEMMA ReadKept ==
  ASSUME TypeOK, WorkInv, MadeInv, PathInv, ReadInv, [Next]_vars
  PROVE  ReadInv'
<1>. USE IndexAssumption DEF TypeOK, WorkInv, MadeInv, PathInv, ReadInv, index, folder, rawFiles, run, worker, storer
<1>1. ASSUME NEW w \in Workers, TakeTask(w) PROVE ReadInv'
  BY <1>1 DEF TakeTask
<1>2. ASSUME NEW w \in Workers, SkipPresent(w) PROVE ReadInv'
  BY <1>2 DEF SkipPresent
<1>3. ASSUME NEW w \in Workers, NameRawFile(w) PROVE ReadInv'
  BY <1>3 DEF NameRawFile
<1>4. ASSUME NEW w \in Workers, ConversionFails(w) PROVE ReadInv'
  BY <1>4 DEF ConversionFails, DeleteRawFile
<1>5. ASSUME NEW w \in Workers, ConversionBegins(w) PROVE ReadInv'
  BY <1>5 DEF ConversionBegins
<1>6. ASSUME NEW w \in Workers, ConversionEnds(w) PROVE ReadInv'
  BY <1>6 DEF ConversionEnds
<1>7. ASSUME NEW w \in Workers, OpenCacheFiles(w) PROVE ReadInv'
  BY <1>7 DEF OpenCacheFiles
<1>8. ASSUME NEW w \in Workers, Extract(w) PROVE ReadInv'
  BY <1>8 DEF Extract
<1>9. ASSUME NEW w \in Workers, CloseCacheFile(w) PROVE ReadInv'
  BY <1>9 DEF CloseCacheFile
<1>10. ASSUME NEW w \in Workers, WriteMetaFile(w) PROVE ReadInv'
  BY <1>10 DEF WriteMetaFile
<1>11. ASSUME NEW w \in Workers, FileIsCached(w) PROVE ReadInv'
  BY <1>11 DEF FileIsCached, DeleteRawFile
<1>12. CASE StartCache
  BY <1>12 DEF StartCache
<1>13. CASE CacheEnds
  BY <1>13 DEF CacheEnds
<1>14. CASE CacheCrashes
  BY <1>14 DEF CacheCrashes
<1>15. CASE StartStoreCached
  BY <1>15 DEF StartStoreCached
<1>16. CASE SkipIncomplete
  BY <1>16 DEF SkipIncomplete
<1>17. CASE NextCacheFile
  BY <1>17 DEF NextCacheFile
<1>18. CASE DatabaseIsMissing
  BY <1>18 DEF DatabaseIsMissing, ForgetLocals
<1>19. CASE SkipDuplicate
  BY <1>19 DEF SkipDuplicate
<1>20. CASE IsNew
  BY <1>20 DEF IsNew
<1>21. CASE StoreCachedFile
  BY <1>21 DEF StoreCachedFile
<1>22. CASE StoreCachedEnds
  BY <1>22 DEF StoreCachedEnds, ForgetLocals
<1>23. CASE StoreCachedCrashes
  BY <1>23 DEF StoreCachedCrashes, ForgetLocals
<1>24. CASE UNCHANGED vars
  BY <1>24 DEF vars
<1>. HIDE DEF TypeOK, WorkInv, MadeInv, PathInv, ReadInv, index, folder, rawFiles, run, worker, storer
<1> QED BY <1>1, <1>2, <1>3, <1>4, <1>5, <1>6, <1>7, <1>8, <1>9, <1>10, <1>11, <1>12,
           <1>13, <1>14, <1>15, <1>16, <1>17, <1>18, <1>19, <1>20, <1>21, <1>22, <1>23, <1>24
        DEF Next, Cache, StoreCached, AllEnded

-----------------------------------------------------------------------------
\* What neither command takes back.

\* A path in a .meta file stays: its number is not cached again.
LEMMA PathsStay ==
  ASSUME TypeOK, WorkInv, MadeInv, PathInv, [Next]_vars
  PROVE  \A i \in Ids : path[i] # None => path'[i] = path[i]
<1>. USE IndexAssumption DEF TypeOK, WorkInv, MadeInv, PathInv
<1>1. ASSUME NEW w \in Workers, OpenCacheFiles(w)
      PROVE  \A i \in Ids : path[i] # None => path'[i] = path[i]
  BY <1>1 DEF OpenCacheFiles
<1>2. ASSUME NEW w \in Workers, WriteMetaFile(w)
      PROVE  \A i \in Ids : path[i] # None => path'[i] = path[i]
  BY <1>2 DEF WriteMetaFile
<1>. HIDE DEF WorkInv, MadeInv, PathInv
<1>3. ASSUME NEW w \in Workers, Cache(w), ~OpenCacheFiles(w), ~WriteMetaFile(w)
      PROVE  path' = path
  BY <1>3 DEF Cache, TakeTask, SkipPresent, NameRawFile, ConversionFails, DeleteRawFile,
              ConversionBegins, ConversionEnds, Extract, CloseCacheFile, FileIsCached, folder
<1>4. CASE StartCache \/ CacheEnds \/ CacheCrashes
  BY <1>4 DEF StartCache, CacheEnds, CacheCrashes, folder
<1>5. CASE StartStoreCached \/ StoreCached \/ StoreCachedCrashes
  BY <1>5, StorerSteps DEF folder
<1>6. CASE UNCHANGED vars
  BY <1>6 DEF vars, folder
<1>. HIDE IndexAssumption DEF TypeOK
<1> QED BY <1>1, <1>2, <1>3, <1>4, <1>5, <1>6 DEF Next, AllEnded

\* Meta data stays too: nothing is deleted here.
LEMMA MetaStays ==
  ASSUME TypeOK, ReadInv, [Next]_vars
  PROVE  \A i \in Ids : meta[i] # None => meta'[i] # None
<1>1. CASE StoreCachedFile
  BY <1>1, IndexAssumption DEF StoreCachedFile, ReadInv, TypeOK, IndexTypeOK
<1>2. CASE ~StoreCachedFile
  <2>1. CASE StartCache \/ CacheEnds \/ CacheCrashes \/ \E w \in Workers : Cache(w)
    BY <2>1, CacheSteps DEF index
  <2>2. CASE StartStoreCached \/ StoreCachedCrashes \/ (StoreCached /\ ~StoreCachedFile)
    BY <2>2 DEF StartStoreCached, StoreCachedCrashes, StoreCached, SkipIncomplete, NextCacheFile,
                DatabaseIsMissing, SkipDuplicate, IsNew, StoreCachedEnds, index
  <2>3. CASE UNCHANGED vars
    BY <2>3 DEF vars, index
  <2> QED BY <1>2, <2>1, <2>2, <2>3 DEF Next, AllEnded
<1> QED BY <1>1, <1>2

\* store_cached passes by no number that had a path when it started.
LEMMA VisitsKept ==
  ASSUME TypeOK, WorkInv, MadeInv, PathInv, ReadInv, VisitInv, CachedIsStored, [Next]_vars
  PROVE  VisitInv' /\ CachedIsStored'
<1>1. /\ \A i \in Ids : path[i] # None => path'[i] # None
      /\ \A i \in Ids : meta[i] # None => meta'[i] # None
      /\ complete \subseteq Ids
  BY PathsStay, MetaStays DEF TypeOK
<1>. USE <1>1 DEF VisitInv, CachedIsStored
<1>2. CASE StartCache \/ CacheEnds \/ CacheCrashes \/ \E w \in Workers : Cache(w)
  <2>1. /\ meta' = meta /\ complete' = complete /\ listed' = listed /\ visited' = visited
        /\ step' = step /\ entry' = entry
    BY <1>2, CacheSteps DEF index, storer
  <2>2. status'["store_cached"] = status["store_cached"]
    <3>. USE DEF TypeOK, Commands
    <3>1. CASE StartCache
      BY <3>1 DEF StartCache
    <3>2. CASE CacheEnds
      BY <3>2 DEF CacheEnds
    <3>3. CASE CacheCrashes
      BY <3>3 DEF CacheCrashes
    <3>4. ASSUME NEW w \in Workers, Cache(w) PROVE status' = status
      BY <3>4 DEF Cache, TakeTask, SkipPresent, NameRawFile, ConversionFails, ConversionBegins,
            ConversionEnds, OpenCacheFiles, Extract, CloseCacheFile, WriteMetaFile, FileIsCached, run
    <3> QED BY <1>2, <3>1, <3>2, <3>3, <3>4
  <2> QED BY <2>1, <2>2
<1>3. CASE StartStoreCached
  <2>1. /\ complete' = {i \in present : path[i] # None} /\ listed' = present /\ visited' = {}
        /\ path' = path /\ meta' = meta
        /\ status'["store_cached"] = "ended" => present = {}
    BY <1>3 DEF StartStoreCached, TypeOK, Commands, folder, index
  <2> QED BY <2>1
<1>4. CASE SkipIncomplete
  BY <1>4 DEF SkipIncomplete, index, folder, run
<1>5. CASE NextCacheFile
  BY <1>5 DEF NextCacheFile, index, folder, run
<1>6. CASE DatabaseIsMissing
  BY <1>6 DEF DatabaseIsMissing, ForgetLocals, index, TypeOK, Commands
<1>7. CASE SkipDuplicate
  <2>1. Id[filename] = entry
    BY <1>7, IndexAssumption DEF SkipDuplicate, ReadInv, PathInv
  <2> QED BY <1>7, <2>1 DEF SkipDuplicate, index, folder, run
<1>8. CASE IsNew
  BY <1>8 DEF IsNew, index, folder, run
<1>9. CASE StoreCachedFile
  <2>1. Id[filename] = entry /\ entry \in Ids /\ filename # None
    BY <1>9, IndexAssumption DEF StoreCachedFile, ReadInv, PathInv
  <2>2. meta'[entry] # None
    BY <1>9, <2>1 DEF StoreCachedFile, TypeOK, IndexTypeOK
  <2> QED BY <1>9, <2>2 DEF StoreCachedFile, folder, run
<1>10. CASE StoreCachedEnds
  BY <1>10 DEF StoreCachedEnds, ForgetLocals, index, TypeOK, Commands
<1>11. CASE StoreCachedCrashes
  BY <1>11 DEF StoreCachedCrashes, ForgetLocals, index, TypeOK, Commands
<1>12. CASE UNCHANGED vars
  BY <1>12 DEF vars, index, folder, run, storer
<1>. HIDE <1>1 DEF VisitInv, CachedIsStored
<1> QED BY <1>2, <1>3, <1>4, <1>5, <1>6, <1>7, <1>8, <1>9, <1>10, <1>11, <1>12
        DEF Next, StoreCached, AllEnded

\* A worker that is about to delete its raw file has written a path.
LEMMA DoneKept ==
  ASSUME IdsAreUnique, TypeOK, WorkInv, TaskInv, RawInv, MadeInv, PathInv, DoneInv, [Next]_vars
  PROVE  DoneInv'
<1>1. \A i \in Ids : path[i] # None => path'[i] = path[i]
  BY PathsStay
<1>2. \A v \in Workers : pc[v] = "delete" => Id[file[v]] \in Ids /\ file[v] # None
  BY IndexAssumption DEF WorkInv
<1>3. \A v \in Workers : pc[v] = "delete" => path'[Id[file[v]]] = file[v]
  BY <1>1, <1>2 DEF DoneInv
<1>4. ASSUME NEW w \in Workers, Extract(w) PROVE pc' = [pc EXCEPT ![w] = "close"]
  <2>1. pc[w] = "extract" /\ raw[temp[w]] = file[w] /\ file[w] # None
    BY <1>4, IndexAssumption DEF Extract, RawInv, WorkInv
  <2> QED BY <1>4, <2>1 DEF Extract
<1>5. ASSUME NEW w \in Workers, WriteMetaFile(w) PROVE path'[Id[file[w]]] = file[w] /\ file' = file
  BY <1>5, IndexAssumption DEF WriteMetaFile, TypeOK, WorkInv
<1>6. ASSUME NEW w \in Workers, Cache(w)
      PROVE  DoneInv'
  <2>1. \A v \in Workers : v # w => pc'[v] = pc[v] /\ file'[v] = file[v]
    BY <1>6 DEF Cache, TakeTask, SkipPresent, NameRawFile, ConversionFails, DeleteRawFile,
          ConversionBegins, ConversionEnds, OpenCacheFiles, Extract, CloseCacheFile,
          WriteMetaFile, FileIsCached, TypeOK
  <2>2. pc'[w] = "delete" => WriteMetaFile(w)
    BY <1>4, <1>6 DEF Cache, TakeTask, SkipPresent, NameRawFile, ConversionFails, DeleteRawFile,
          ConversionBegins, ConversionEnds, OpenCacheFiles, CloseCacheFile, FileIsCached, TypeOK
  <2> QED BY <1>3, <1>5, <2>1, <2>2 DEF DoneInv
<1>7. CASE StartCache \/ CacheEnds \/ CacheCrashes
  BY <1>3, <1>7 DEF StartCache, CacheEnds, CacheCrashes, worker, DoneInv
<1>8. CASE StartStoreCached \/ StoreCached \/ StoreCachedCrashes
  BY <1>3, <1>8, StorerSteps DEF worker, DoneInv
<1>9. CASE UNCHANGED vars
  BY <1>3, <1>9 DEF vars, worker, DoneInv
<1> QED BY <1>6, <1>7, <1>8, <1>9 DEF Next, AllEnded

\* Cacheable files that a first run has not seen to yet.
Seen(f) == f \in Range(queue) \/ (\E w \in Workers : file[w] = f) \/ path[Id[f]] = f

\* A .tdb file that a first run finds has a path, or will have one.
Own(i) == path[i] # None \/ \E w \in Workers : pc[w] \in {"extract", "close", "path"} /\ Id[file[w]] = i

FirstRun == runs["cache"] <= 1 /\ status["cache"] # "killed"

\* The steps of a worker.
LEMMA OwnKept ==
  ASSUME TypeOK, WorkInv, RawInv, MadeInv, PathInv, NEW w \in Workers, Cache(w),
         \A i \in present : Own(i)
  PROVE  \A i \in present' : Own(i)'
<1>1. \A i \in Ids : path[i] # None => path'[i] = path[i]
  BY PathsStay DEF Next
<1>2. \A v \in Workers : v # w => pc'[v] = pc[v] /\ file'[v] = file[v]
  BY DEF Cache, TakeTask, SkipPresent, NameRawFile, ConversionFails, DeleteRawFile,
         ConversionBegins, ConversionEnds, OpenCacheFiles, Extract, CloseCacheFile,
         WriteMetaFile, FileIsCached, TypeOK
<1>3. CASE OpenCacheFiles(w)
  <2>1. /\ pc'[w] = "extract" /\ file' = file
        /\ present' = present \cup {Id[file[w]]}
    BY <1>3 DEF OpenCacheFiles, TypeOK
  <2>2. Own(Id[file[w]])'
    BY <2>1 DEF Own
  <2>3. ASSUME NEW i \in present, i # Id[file[w]] PROVE Own(i)'
    BY <1>1, <1>2, <2>1, <2>3 DEF Own, TypeOK
  <2> QED BY <2>1, <2>2, <2>3
<1>4. CASE WriteMetaFile(w)
  <2>1. file[w] \in Files /\ Id[file[w]] \in Ids /\ present' = present
    BY <1>4, IndexAssumption DEF WriteMetaFile, WorkInv
  <2>2. path'[Id[file[w]]] # None
    BY <1>4, <2>1, IndexAssumption DEF WriteMetaFile, TypeOK
  <2>3. ASSUME NEW i \in present, i # Id[file[w]] PROVE Own(i)'
    <3>1. CASE path[i] # None
      BY <1>1, <3>1 DEF Own, TypeOK
    <3>2. ASSUME NEW v \in Workers, pc[v] \in {"extract", "close", "path"}, Id[file[v]] = i
          PROVE  Own(i)'
      <4>1. v # w
        BY <2>3, <3>2
      <4>2. pc'[v] \in {"extract", "close", "path"} /\ Id[file'[v]] = i
        BY <1>2, <3>2, <4>1
      <4> QED BY <4>2 DEF Own
    <3> QED BY <3>1, <3>2 DEF Own
  <2> QED BY <2>1, <2>2, <2>3 DEF Own
<1>5. CASE ~OpenCacheFiles(w) /\ ~WriteMetaFile(w)
  <2>1. present' = present
    BY <1>5 DEF Cache, TakeTask, SkipPresent, NameRawFile, ConversionFails, DeleteRawFile,
           ConversionBegins, ConversionEnds, Extract, CloseCacheFile, FileIsCached, folder
  <2>2. pc[w] \in {"extract", "close", "path"} =>
          pc'[w] \in {"extract", "close", "path"} /\ file'[w] = file[w]
    <3>1. CASE Extract(w)
      <4>1. raw[temp[w]] = file[w] /\ file[w] # None
        BY <3>1, IndexAssumption DEF Extract, RawInv, WorkInv
      <4> QED BY <3>1, <4>1 DEF Extract, TypeOK
    <3>2. CASE CloseCacheFile(w)
      BY <3>2 DEF CloseCacheFile, TypeOK
    <3>3. CASE ~Extract(w) /\ ~CloseCacheFile(w)
      BY <1>5, <3>3 DEF Cache, TakeTask, SkipPresent, NameRawFile, ConversionFails,
             ConversionBegins, ConversionEnds, FileIsCached
    <3> QED BY <3>1, <3>2, <3>3
  <2>3. ASSUME NEW i \in present PROVE Own(i)'
    <3>1. CASE path[i] # None
      BY <1>1, <3>1 DEF Own, TypeOK
    <3>2. ASSUME NEW v \in Workers, pc[v] \in {"extract", "close", "path"}, Id[file[v]] = i
          PROVE  Own(i)'
      <4>1. pc'[v] \in {"extract", "close", "path"} /\ Id[file'[v]] = i
        BY <1>2, <2>2, <3>2
      <4> QED BY <4>1 DEF Own
    <3> QED BY <3>1, <3>2 DEF Own
  <2> QED BY <2>1, <2>3
<1> QED BY <1>3, <1>4, <1>5

LEMMA SeenKept ==
  ASSUME IdsAreUnique, TypeOK, WorkInv, TaskInv, MadeInv, PathInv, DoneInv,
         NEW w \in Workers, Cache(w),
         \A i \in present : Own(i),
         Parallel \/ errors' = {},
         \A f \in Cacheable : Seen(f)
  PROVE  \A f \in Cacheable : Seen(f)'
<1>1. \A i \in Ids : path[i] # None => path'[i] = path[i]
  BY PathsStay DEF Next
<1>2. \A f \in Cacheable : f \in Files /\ f # None /\ Id[f] \in Ids /\ f \notin Unconvertible
  BY CacheAssumption, IndexAssumption DEF Cacheable, Range
<1>3. \A v \in Workers : v # w => file'[v] = file[v]
  BY DEF Cache, TakeTask, SkipPresent, NameRawFile, ConversionFails, DeleteRawFile,
         ConversionBegins, ConversionEnds, OpenCacheFiles, Extract, CloseCacheFile,
         WriteMetaFile, FileIsCached, TypeOK
<1> SUFFICES ASSUME NEW f \in Cacheable PROVE Seen(f)'
  OBVIOUS
<1>4. \/ f \in Range(queue)
      \/ \E v \in Workers : file[v] = f
      \/ path[Id[f]] = f
  BY DEF Seen
<1>5. CASE path[Id[f]] = f
  BY <1>1, <1>2, <1>5 DEF Seen
<1>6. CASE TakeTask(w)
  <2>1. /\ queue \in Seq(Files) /\ queue # <<>> /\ queue' = Tail(queue)
        /\ file'[w] = Head(queue) /\ file[w] = None
    BY <1>6 DEF TakeTask, TypeOK, WorkInv
  <2>2. f \in Range(queue) => f = Head(queue) \/ f \in Range(queue')
    BY <2>1, TakenOrLeft
  <2> QED BY <1>2, <1>3, <1>4, <1>5, <2>1, <2>2 DEF Seen
<1>7. CASE SkipPresent(w)
  <2>1. /\ pc[w] = "check" /\ Id[file[w]] \in present /\ queue' = queue
        /\ file[w] \in Files
    BY <1>7 DEF SkipPresent, run, WorkInv
  <2>2. CASE file[w] = f
    <3>1. Own(Id[f])
      BY <2>1, <2>2
    <3>2. path[Id[f]] # None
      <4> SUFFICES ASSUME NEW v \in Workers, pc[v] \in {"extract", "close", "path"}, Id[file[v]] = Id[f]
                   PROVE  FALSE
        BY <3>1 DEF Own
      <4>1. file[v] \in Files /\ file[v] = f
        BY <1>2 DEF WorkInv, IdsAreUnique
      <4>2. v = w
        BY <1>2, <2>2, <4>1 DEF TaskInv
      <4> QED BY <2>1, <4>2
    <3>3. path[Id[f]] \in Files /\ Id[path[Id[f]]] = Id[f]
      BY <1>2, <3>2 DEF PathInv, TypeOK
    <3>4. path[Id[f]] = f
      BY <1>2, <3>3 DEF IdsAreUnique
    <3> QED BY <1>5, <3>4
  <2>3. CASE file[w] # f
    BY <1>3, <1>4, <1>5, <2>1, <2>3 DEF Seen
  <2> QED BY <2>2, <2>3
<1>8. CASE ConversionFails(w)
  <2>1. file[w] \in Unconvertible /\ queue' = queue
    BY <1>8 DEF ConversionFails
  <2>2. file[w] # f
    BY <1>2, <2>1
  <2> QED BY <1>3, <1>4, <1>5, <2>1, <2>2 DEF Seen
<1>9. CASE FileIsCached(w)
  <2>1. pc[w] = "delete" /\ queue' = queue
    BY <1>9 DEF FileIsCached, run
  <2>2. file[w] = f => path[Id[f]] = f
    BY <2>1 DEF DoneInv
  <2> QED BY <1>3, <1>4, <1>5, <2>1, <2>2 DEF Seen
<1>10. CASE ~TakeTask(w) /\ ~SkipPresent(w) /\ ~ConversionFails(w) /\ ~FileIsCached(w)
  <2>1. file' = file /\ queue' = queue
    BY <1>10 DEF Cache, NameRawFile, ConversionBegins, ConversionEnds, OpenCacheFiles, Extract,
                 CloseCacheFile, WriteMetaFile, run
  <2> QED BY <1>4, <1>5, <2>1 DEF Seen
<1> QED BY <1>6, <1>7, <1>8, <1>9, <1>10

\* The first run as a whole.
LEMMA FirstRunKept ==
  ASSUME IdsAreUnique, TypeOK, WorkInv, TaskInv, RawInv, MadeInv, PathInv, DoneInv, FirstRunInv,
         [Next]_vars
  PROVE  FirstRunInv'
<1>1. /\ runs["cache"] \in Nat
      /\ runs["cache"] = 0 => status["cache"] = "ended"
      /\ status["cache"] = "ended" => errors = {}
      /\ FirstRun => \A i \in present : Own(i)
      /\ FirstRun /\ runs["cache"] = 1 /\ (Parallel \/ errors = {}) => \A f \in Cacheable : Seen(f)
  BY DEF FirstRunInv, FirstRun, Own, Seen, TypeOK, Commands
<1>2. SUFFICES
        /\ runs'["cache"] = 0 => status'["cache"] = "ended"
        /\ status'["cache"] = "ended" => errors' = {}
        /\ FirstRun' => \A i \in present' : Own(i)'
        /\ FirstRun' /\ runs'["cache"] = 1 /\ (Parallel \/ errors' = {}) => \A f \in Cacheable : Seen(f)'
  BY DEF FirstRunInv, FirstRun, Own, Seen
<1>3. CASE StartCache
  <2>1. /\ runs'["cache"] = runs["cache"] + 1 /\ status'["cache"] = "running"
        /\ queue' = Queue /\ errors' = {} /\ UNCHANGED <<present, path, pc, file>>
    BY <1>3 DEF StartCache, TypeOK, Commands, folder, worker
  <2>2. runs'["cache"] # 0
    BY <1>1, <2>1
  <2>3. FirstRun' => FirstRun
    BY <1>1, <2>1 DEF FirstRun
  <2>4. \A i \in present : Own(i) => Own(i)'
    BY <2>1 DEF Own
  <2>5. \A f \in Cacheable : Seen(f)'
    BY <2>1 DEF Seen, Cacheable
  <2> QED BY <1>1, <2>1, <2>2, <2>3, <2>4, <2>5
<1>4. ASSUME NEW w \in Workers, Cache(w)
      PROVE  /\ runs'["cache"] = 0 => status'["cache"] = "ended"
             /\ status'["cache"] = "ended" => errors' = {}
             /\ FirstRun' => \A i \in present' : Own(i)'
             /\ FirstRun' /\ runs'["cache"] = 1 /\ (Parallel \/ errors' = {}) => \A f \in Cacheable : Seen(f)'
  <2>1. runs' = runs /\ status' = status /\ errors \subseteq errors'
    BY <1>4 DEF Cache, TakeTask, SkipPresent, NameRawFile, ConversionFails, ConversionBegins,
           ConversionEnds, OpenCacheFiles, Extract, CloseCacheFile, WriteMetaFile, FileIsCached, run
  <2>2. status["cache"] = "running"
    <3>1. pc[w] # "idle" \/ queue # <<>>
      BY <1>4 DEF Cache, TakeTask, SkipPresent, NameRawFile, ConversionFails, ConversionBegins,
             ConversionEnds, OpenCacheFiles, Extract, CloseCacheFile, WriteMetaFile, FileIsCached
    <3> QED BY <3>1 DEF TaskInv
  <2>3. FirstRun' => FirstRun
    BY <2>1 DEF FirstRun
  <2>4. FirstRun' => \A i \in present' : Own(i)'
    BY <1>1, <1>4, <2>3, OwnKept
  <2>5. FirstRun' /\ runs'["cache"] = 1 /\ (Parallel \/ errors' = {}) => \A f \in Cacheable : Seen(f)'
    <3> SUFFICES ASSUME FirstRun', runs'["cache"] = 1, Parallel \/ errors' = {}
                 PROVE  \A f \in Cacheable : Seen(f)'
      OBVIOUS
    <3>1. (\A i \in present : Own(i)) /\ (\A f \in Cacheable : Seen(f))
      BY <1>1, <2>1, <2>3
    <3> QED BY <1>4, <3>1, SeenKept
  <2> QED BY <1>1, <2>1, <2>2, <2>4, <2>5
<1>5. CASE CacheEnds
  <2>1. /\ UNCHANGED <<runs, errors, present, path, pc, file, queue>>
        /\ status'["cache"] = (IF errors = {} THEN "ended" ELSE "failed")
        /\ status["cache"] = "running"
    BY <1>5 DEF CacheEnds, TypeOK, Commands, folder, worker
  <2> QED BY <1>1, <2>1 DEF FirstRun, Own, Seen
<1>6. CASE CacheCrashes
  <2>1. runs' = runs /\ status'["cache"] = "killed" /\ status["cache"] = "running"
    BY <1>6 DEF CacheCrashes, TypeOK, Commands
  <2> QED BY <1>1, <2>1 DEF FirstRun
<1>7. CASE \/ StartStoreCached \/ StoreCached \/ StoreCachedCrashes
           \/ UNCHANGED vars
  <2>1. UNCHANGED <<present, path, pc, file, queue, errors>> /\ status'["cache"] = status["cache"]
    BY <1>7, StorerSteps DEF folder, worker, vars, run
  <2>2. runs'["cache"] = runs["cache"]
    <3>1. CASE StartStoreCached
      BY <3>1 DEF StartStoreCached, TypeOK, Commands
    <3>2. CASE StoreCached \/ StoreCachedCrashes \/ UNCHANGED vars
      BY <3>2 DEF StoreCached, StoreCachedCrashes, SkipIncomplete, NextCacheFile,
             DatabaseIsMissing, SkipDuplicate, IsNew, StoreCachedFile, StoreCachedEnds, vars, run
    <3> QED BY <1>7, <3>1, <3>2
  <2> QED BY <1>1, <2>1, <2>2 DEF FirstRun, Own, Seen
<1> QED BY <1>3, <1>4, <1>5, <1>6, <1>7 DEF Next, AllEnded

-----------------------------------------------------------------------------
\* In the initial states nothing is cached and nobody is at work.
LEMMA InitInv == Init => IInv
<1>. USE IndexAssumption DEF Init, IndexInit
<1>1. Init => TypeOK
  BY DEF TypeOK, IndexTypeOK, Commands
<1>2. Init => WorkInv /\ TaskInv /\ RawInv /\ MadeInv
  BY DEF WorkInv, TaskInv, RawInv, MadeInv, Commands
<1>3. Init => PathInv /\ ReadInv
  BY DEF PathInv, ReadInv
<1>4. Init => DoneInv /\ FirstRunInv /\ VisitInv /\ CachedIsStored
  BY DEF DoneInv, FirstRunInv, VisitInv, CachedIsStored, Commands
<1> QED BY <1>1, <1>2, <1>3, <1>4 DEF IInv

\* The parts of the invariant need each other.
LEMMA InductiveStep ==
  ASSUME IdsAreUnique, NamesAreUnique, QueueHasNoDoubles, IInv, [Next]_vars
  PROVE  IInv'
<1>. USE DEF IInv
<1>1. TypeOK' /\ WorkInv' /\ TaskInv'
  BY TypeKept, WorkKept, TasksKept
<1>2. RawInv' /\ MadeInv'
  BY RawKept, MadeKept
<1>3. PathInv' /\ ReadInv'
  BY PathsKept, ReadKept
<1>4. DoneInv' /\ FirstRunInv'
  BY DoneKept, FirstRunKept
<1>5. VisitInv' /\ CachedIsStored'
  BY VisitsKept
<1> QED BY <1>1, <1>2, <1>3, <1>4, <1>5

\* The inductive invariant: with numbers, and raw files, of their own, workers
\* do not meet in each other's files, and what has a path is whole.
THEOREM Invariance ==
  ASSUME IdsAreUnique, NamesAreUnique, QueueHasNoDoubles
  PROVE  Spec => []IInv
<1>1. IInv /\ [Next]_vars => IInv'
  BY InductiveStep
<1> QED BY <1>1, InitInv, PTL DEF Spec

\* What had a path when store_cached started is in the index when it ends,
\* whatever the workers of cache do to the folder meanwhile.
THEOREM CachedFilesAreStored ==
  ASSUME IdsAreUnique, NamesAreUnique, QueueHasNoDoubles
  PROVE  Spec => []CachedIsStored
<1>1. IInv => CachedIsStored
  BY DEF IInv
<1> QED BY <1>1, Invariance, PTL

\* A first run of cache that ends by itself has cached every file that can be
\* converted; only an error outside of a pool may take files away from it.
THEOREM FirstRunIsComplete ==
  ASSUME IdsAreUnique, NamesAreUnique, QueueHasNoDoubles
  PROVE  Spec => []EndedCacheIsComplete
<1>1. IInv => EndedCacheIsComplete
  <2> SUFFICES ASSUME IInv, runs["cache"] = 1,
                      status["cache"] = "ended" \/ (status["cache"] = "failed" /\ Parallel),
                      NEW f \in Cacheable
               PROVE  path[Id[f]] = f /\ rows[Id[f]] = Rows(f)
    BY DEF EndedCacheIsComplete
  <2>1. f \in Files /\ f # None /\ Id[f] \in Ids
    BY CacheAssumption, IndexAssumption DEF Cacheable, Range
  <2>2. Parallel \/ errors = {}
    BY DEF IInv, FirstRunInv
  <2>3. f \in Range(queue) \/ (\E w \in Workers : file[w] = f) \/ path[Id[f]] = f
    BY <2>2 DEF IInv, FirstRunInv
  <2>4. queue = <<>> /\ \A w \in Workers : file[w] = None
    BY DEF IInv, TaskInv, WorkInv
  <2>5. path[Id[f]] = f
    BY <2>1, <2>3, <2>4 DEF Range
  <2>6. rows[Id[f]] = Rows(path[Id[f]])
    BY <2>1, <2>5 DEF IInv, PathInv
  <2> QED BY <2>5, <2>6
<1> QED BY <1>1, Invariance, PTL

\* Every variable keeps its type: lines are fingerprints, paths are files.
THEOREM TypeCorrect ==
  ASSUME IdsAreUnique, NamesAreUnique, QueueHasNoDoubles
  PROVE  Spec => []TypeOK
<1>1. IInv => TypeOK
  BY DEF IInv
<1> QED BY <1>1, Invariance, PTL

\* Whatever the interleaving of the workers, and wherever they are killed, a
\* cache file with a path holds the lines of the audio at that path, all of them.
THEOREM FilesHoldTheirOwnAudio ==
  ASSUME IdsAreUnique, NamesAreUnique, QueueHasNoDoubles
  PROVE  Spec => []CachedFromOwnAudio
<1>1. IInv => CachedFromOwnAudio
  BY DEF IInv, PathInv, CachedFromOwnAudio
<1> QED BY <1>1, Invariance, PTL

\* store_cached does to the index what storing the file at once would do: the
\* pipeline of two commands implements OlafIndex.
THEOREM ImplementsIndex ==
  ASSUME IdsAreUnique, NamesAreUnique, QueueHasNoDoubles
  PROVE  Spec => IndexSpec
<1>1. Init => IndexInit
  BY DEF Init
<1>2. IInv /\ [Next]_vars => [IndexNext]_indexVars
  <2> SUFFICES ASSUME IInv, [Next]_vars PROVE [IndexNext]_indexVars
    OBVIOUS
  <2>1. CASE StoreCachedFile
    <3>1. /\ entry \in Ids /\ filename \in Files /\ path[entry] = filename
          /\ filename # None
      BY <2>1, IndexAssumption DEF StoreCachedFile, IInv, ReadInv
    <3>2. rows[entry] = Rows(filename)
      BY <3>1 DEF IInv, PathInv
    <3>3. Contents[filename] = rows[entry] \X {Id[filename]}
      BY <3>1, <3>2, CacheAssumption
    <3>4. StoreFile(filename)
      BY <2>1, <3>3 DEF StoreCachedFile, StoreFile
    <3> QED BY <3>1, <3>4 DEF IndexNext
  <2>2. CASE StartCache \/ CacheEnds \/ CacheCrashes \/ \E w \in Workers : Cache(w)
    BY <2>2, CacheSteps DEF index, indexVars
  <2>3. CASE \/ StartStoreCached \/ StoreCachedCrashes \/ SkipIncomplete \/ NextCacheFile
             \/ DatabaseIsMissing \/ SkipDuplicate \/ IsNew \/ StoreCachedEnds
    BY <2>3 DEF StartStoreCached, StoreCachedCrashes, SkipIncomplete, NextCacheFile,
                DatabaseIsMissing, SkipDuplicate, IsNew, StoreCachedEnds, index, indexVars
  <2>4. CASE UNCHANGED vars
    BY <2>4 DEF vars, index, indexVars
  <2> QED BY <2>1, <2>2, <2>3, <2>4 DEF Next, StoreCached, AllEnded
<1> QED BY <1>1, <1>2, Invariance, PTL DEF Spec, IndexSpec

\* So nobody finds a file in the index with a part of its entries missing, a
\* killed store_cached or a cache that is still at work notwithstanding.
THEOREM CachedFilesStayComplete ==
  ASSUME IdsAreUnique, NamesAreUnique, QueueHasNoDoubles
  PROVE  Spec => []StoredIsComplete
<1>1. EntriesCarryTheirId
  BY CacheAssumption DEF EntriesCarryTheirId
<1> QED BY <1>1, StoredStaysComplete, ImplementsIndex, PTL
=============================================================================
